---- MODULE Spec2Model ----
(***************************************************************************)
(* Session registry, session lifecycle and workflow-graph runtime of the   *)
(* agent orchestrator (backend/service/langgraph, backend/service/workflow *)
(* and backend/controller).                                                *)
(*                                                                         *)
(* Request handlers are coroutines on one asyncio event loop: a handler    *)
(* runs without interruption up to its next suspending `await`, so every   *)
(* action below is the code between two suspension points.                 *)
(***************************************************************************)
EXTENDS Integers, Sequences, FiniteSets, TLC

\* ---------------------------------------------------------------- bounds
MaxIterations == 3   \* largest max_iterations a run is started with
MaxIds == 2          \* distinct session ids (uuid4 values) ever generated
MaxObj == 3          \* session objects ever constructed
NumCallers == 2      \* request handlers that can be in flight at once
MaxWorkflows == 2    \* workflow definitions ever created
MaxTodos == 2        \* items of the todo list that create_todos writes
MaxNodes == 3        \* node instances the node registry ever creates

Ids == 1..MaxIds
Objs == 1..MaxObj
Callers == 1..NumCallers
None == 0

VARIABLES
    agents,      \* AgentSessionManager._local_agents : id -> object (None = absent)
    procs,       \* SessionManager._local_processes   : id -> object (None = absent)
    obj,         \* the session objects (AgentSession wrapping a ClaudeProcess)
    nextObj,     \* next object to be constructed
    nextId,      \* next fresh uuid4
    store,       \* persistent session store (sessions.json): id -> record
    disk,        \* storage directories that exist on disk
    call,        \* the request handlers in flight
    preserved,   \* history: ids soft-deleted without storage cleanup, no permanent delete since
    ret,         \* the response sent by the step just taken (NoRet: none was sent)
    prevPath,    \* history: storage_path an id had when it was last soft-deleted
    delRet,      \* history: objects whose delete_session call has returned
    wf,          \* the workflow a WorkflowExecutor runs
    cfg,         \* the run's input and the configuration of the workflow's nodes
    status,      \* of the run: "idle", "running", "done", "raised", "recursion"
    node,        \* the node the graph executes next
    st,          \* the graph state (AutonomousState), merged update by update
    updated,     \* the fields written by the update the last node returned
    last,        \* the node executed last
    steps,       \* node invocations of the run
    visits,      \* executions of the run's iteration gate
    rejects,     \* verdicts other than the first that the model gave to review
    loops,       \* executions of the run's execute_todo node
    turns,       \* executions of the simple graph's agent node in the run
    result,      \* what the caller of the run got back
    resilient,   \* one call of the retry helper: position, attempt, errors
    routed,      \* the port the last node's routing function returned ("none":
                 \* the node has a direct edge and no routing function was called)
    raw,         \* history: the model's reply to the classify node executed last
    before,      \* history: the session object as it was when the session method
                 \* that returned in the step just taken was called
    wstore,      \* the workflow store: the stored definitions by id, and the
                 \* next id a new definition gets
    gate,        \* one execution of an iteration gate on its own: the state and
                 \* configuration it got, its update, the port it routed to
    nreg,        \* the node registry: _registry and _aliases, the number of
                 \* node instances created, and as history the instance
                 \* registered last for each node_type
    deleg        \* delegation to one worker of a manager: the worker's process
                 \* fields, the delegate_task handlers in flight, the response
                 \* sent by the step just taken

regVars == <<agents, procs, obj, nextObj, nextId, store, disk, call, ret,
             preserved, prevPath, delRet>>

runVars == <<wf, cfg, status, node, st, updated, last, steps, visits, rejects, loops, turns,
             result, resilient, routed, raw>>

\* single nodes and helpers exercised on their own
libVars == <<gate, nreg, deleg>>

vars == <<regVars, runVars, before, wstore, libVars>>

\* ---------------------------------------------------------------- data
\* Storage directory of a session: ClaudeProcess derives it from the session id.
StoragePath(sid) == <<"storage", sid>>

NoObj == [psid |-> None, asid |-> None, init |-> FALSE, status |-> "none",
          model |-> FALSE, alive |-> FALSE, error_message |-> "none",
          role |-> "none", manager_id |-> None]

NoRecord == [st |-> "none", path |-> <<>>]

Idle == [pc |-> "idle", op |-> "none", sid |-> None, obj |-> None,
         cs |-> FALSE, res |-> "none", todo |-> {}, busy |-> FALSE]

\* a handler's last position: it responds (operation, id, outcome) and is over
Done(op, sid, o, res) ==
    [pc |-> "done", op |-> op, sid |-> sid, obj |-> o, cs |-> FALSE,
     res |-> res, todo |-> {}, busy |-> FALSE]

NoRet == [op |-> "none", sid |-> None, res |-> "none"]

\* AgentSession.__init__: `self._session_id = session_id or str(uuid.uuid4())`
NewSid(req, fresh) == IF req # None THEN req ELSE fresh

\* AgentSession.storage_path: the process's storage path, None without a model
ObjStoragePath(o) == IF o.model THEN StoragePath(o.psid) ELSE <<>>

\* AgentSession.is_alive
IsAlive(o) == o.model /\ o.alive

\* The registry state that a chain of synchronous calls transforms.
Reg == [obj |-> obj, agents |-> agents, procs |-> procs, store |-> store, disk |-> disk]

SetReg(r) ==
    /\ obj' = r.obj
    /\ agents' = r.agents
    /\ procs' = r.procs
    /\ store' = r.store
    /\ disk' = r.disk

\* ------------------------------------------------ persistence collaborator
\* SessionStore.register / soft_delete / permanent_delete (sessions.json)
Register(path) == [st |-> "active", path |-> path]
SoftDelete(rec) == IF rec.st = "none" THEN rec ELSE [rec EXCEPT !.st = "deleted"]

\* ------------------------------------------------ session object
\* AgentSession.__init__ followed by initialize() up to the awaited
\* ClaudeProcess.initialize(): the model and its process object exist, nothing runs.
Construct(r, o, sid) ==
    [r EXCEPT !.obj[o] = [psid |-> sid, asid |-> sid, init |-> FALSE,
                          status |-> "starting", model |-> TRUE, alive |-> FALSE,
                          error_message |-> "none", role |-> "worker",
                          manager_id |-> None]]

\* initialize() after the process came up: memory, graph, _initialized, RUNNING
Initialized(r, o) ==
    [r EXCEPT !.obj[o] = [@ EXCEPT !.init = TRUE, !.status = "running", !.alive = TRUE],
              !.disk = @ \cup {StoragePath(r.obj[o].psid)}]

\* A cleanup that stops the process and keeps the reference to the model
\* (what StopStoppedIsNoOp must rule out)
CleanedUpKeepsModel(r, a) ==
    [r EXCEPT !.obj[a] = [@ EXCEPT !.init = FALSE, !.status = "stopped", !.alive = FALSE]]

\* AgentSession.cleanup once the awaited model.cleanup() (process.stop()) is over
CleanedUp(r, a) ==
    [r EXCEPT !.obj[a] = [@ EXCEPT !.model = FALSE, !.init = FALSE,
                                   !.status = "stopped", !.alive = FALSE]]

\* AgentSession.cleanup when self._model is already None: nothing is awaited
CleanedNoModel(r, a) ==
    [r EXCEPT !.obj[a] = [@ EXCEPT !.init = FALSE, !.status = "stopped"]]

\* AgentSession.cleanup, called and awaited by the holder of session a
Cleanup(r, a) == IF r.obj[a].model THEN CleanedUp(r, a) ELSE CleanedNoModel(r, a)

\* An initialize that spawns whatever _initialized says
\* (what InitializeInitializedIsNoOp must rule out)
InitializeAlways(r, o, ok) ==
    IF ok THEN Initialized([r EXCEPT !.obj[o].model = TRUE], o)
    ELSE [r EXCEPT !.obj[o] = [@ EXCEPT !.model = TRUE, !.status = "error",
                                        !.error_message = "init"]]

\* AgentSession.initialize, called and awaited by the holder of session o; ok:
\* the model process came up
Initialize(r, o, ok) ==
    IF r.obj[o].init THEN r
    ELSE IF ok THEN Initialized([r EXCEPT !.obj[o].model = TRUE], o)
    ELSE [r EXCEPT !.obj[o] = [@ EXCEPT !.model = TRUE, !.status = "error",
                                        !.error_message = "init"]]

\* create_agent_session: `session_id = agent.session_id`, the key of the live map
RegisteredKey(o, req) == o.asid

\* create_agent_session after AgentSession.create returned
Registered(r, o, req) ==
    LET k == RegisteredKey(r.obj[o], req) IN
    [r EXCEPT !.agents[k] = o,
              !.procs[k] = o,
              !.store[k] = Register(ObjStoragePath(r.obj[o]))]

\* get_agent_workers_by_manager, as the ids of the workers, in registry r
GetAgentWorkersByManager(r, m) ==
    {sid \in Ids : /\ r.agents[sid] # None
                   /\ r.obj[r.agents[sid]].manager_id = m
                   /\ r.obj[r.agents[sid]].role = "worker"}

\* A delete_session that removes the workers of the session with it
\* (what DeleteKeepsWorkers must rule out)
DelRemoveWithWorkers(r, sid, cs) ==
    [r EXCEPT !.agents = [i \in Ids |->
                             IF i = sid \/ i \in GetAgentWorkersByManager(r, sid)
                             THEN None ELSE @[i]],
              !.procs[sid] = None,
              !.store[sid] = SoftDelete(@)]

\* A delete_session whose AgentSession branch removed the storage directory
\* (what SoftDeletePreserved must rule out)
DelRemoveStorage(r, sid, cs) ==
    [r EXCEPT !.agents[sid] = None,
              !.procs[sid] = None,
              !.disk = @ \ {StoragePath(sid)},
              !.store[sid] = SoftDelete(@)]

\* delete_session, AgentSession branch, after agent.cleanup(): the two `del`s
\* and store.soft_delete. cleanup_storage is not consulted on this branch.
DelRemove(r, sid, cs) ==
    [r EXCEPT !.agents[sid] = None,
              !.procs[sid] = None,
              !.store[sid] = SoftDelete(@)]

\* SessionManager.delete_session's default for cleanup_storage: preserve
BaseCleanupStorage == FALSE

\* SessionManager.delete_session (the base class; a session held as a bare process)
BaseDelete(r, sid, cs) ==
    IF r.procs[sid] = None THEN r
    ELSE LET p == r.procs[sid] IN
         [r EXCEPT !.obj[p] = [@ EXCEPT !.alive = FALSE],
                   !.procs[sid] = None,
                   !.disk = IF cs THEN @ \ {StoragePath(r.obj[p].psid)} ELSE @,
                   !.store[sid] = SoftDelete(@)]

\* A from_process that did not pass session_id: __init__ draws a new uuid4
\* (what ListedIdsResolve must rule out)
FromProcessFresh(p) == nextId

\* AgentSession.from_process: the wrapper takes the process's session id
FromProcessSid(p) == p.psid

\* permanent_delete_session, session not live: shutil.rmtree(storage_path)
RemoveStorage(r, sid) ==
    IF r.store[sid].st # "none" /\ r.store[sid].path # <<>>
    THEN [r EXCEPT !.disk = @ \ {r.store[sid].path}]
    ELSE r

\* A restore that did not pass the id on: the session gets a new uuid4
\* (what RestoreIdentity must rule out)
RestoreFreshId(sid) == None

\* restore_session: create_agent_session(request, session_id=session_id)
RestoreRequestId(sid) == sid

\* ------------------------------------------------ handlers: helpers
\* positions of a handler inside a graph run: the node about to be dispatched
NodePcs == {"n_guard", "n_agent", "n_model", "n_post"}
RunPcs == NodePcs \cup {"n_end"}

\* the handler moves to its next suspension point, or responds and is over
Go(c, rec) ==
    IF rec.pc = "done"
    THEN /\ call' = [call EXCEPT ![c] = Idle]
         /\ ret' = [op |-> rec.op, sid |-> rec.sid, res |-> rec.res]
    ELSE /\ call' = [call EXCEPT ![c] = rec]
         /\ ret' = NoRet

At(pc, op, sid, o, cs, todo) ==
    [pc |-> pc, op |-> op, sid |-> sid, obj |-> o, cs |-> cs, res |-> "none",
     todo |-> todo, busy |-> FALSE]

\* a graph run of session object a is between ainvoke's call and its return
RunInFlight(a) == \E d \in Callers : call[d].pc \in RunPcs /\ call[d].obj = a

\* What follows a delete_session call that returned `found` to its caller
\* (delete_agent_session, permanent_delete_session or cleanup_dead_sessions),
\* up to that caller's next suspension.
AfterDelete(c, r, op, sid, a, cs, todo, found) ==
    \* history: the call was made with a run in flight, and has returned
    /\ delRet' = IF /\ found /\ a # None
                    /\ IF call[c].pc = "del_stop" THEN call[c].busy ELSE RunInFlight(a)
                 THEN delRet \cup {a} ELSE delRet
    /\ CASE op = "delete" ->
              /\ SetReg(r)
              /\ Go(c, Done(op, sid, a, IF found THEN "ok" ELSE "404"))
              \* history: a session the store still knew (no permanent delete
              \* before) was soft-deleted without the storage opt-in
              /\ preserved' = IF found /\ ~cs /\ store[sid].st # "none"
                               THEN preserved \cup {sid} ELSE preserved
         [] op = "permdel" ->
              \* removed = store.permanent_delete(session_id)
              /\ SetReg([r EXCEPT !.store[sid] = NoRecord])
              /\ Go(c, Done(op, sid, a, IF r.store[sid].st = "none" THEN "404" ELSE "ok"))
              /\ preserved' = preserved \ {sid}
         [] OTHER ->
              \* cleanup_dead_sessions: next element of the list
              /\ SetReg(r)
              /\ Go(c, At("cd_loop", op, None, None, TRUE, todo \ {sid}))
              /\ preserved' = preserved

\* delete_session after agent.cleanup() returned: `del self._local_agents[sid]`
\* raises KeyError when another handler removed the entry meanwhile.
AfterCleanup(c, r, op, sid, a, cs, todo) ==
    IF r.agents[sid] = None
    THEN /\ SetReg(r)
         /\ Go(c, Done(op, sid, a, "KeyError"))
         /\ UNCHANGED <<preserved, delRet>>
    ELSE AfterDelete(c, DelRemove(r, sid, cs), op, sid, a, cs, todo, TRUE)

\* delete_session(sid, cs) from its first line to its first suspension
DeleteSession(c, op, sid, cs, todo) ==
    LET a == agents[sid] IN
    IF a = None
    THEN \* not an AgentSession: super().delete_session
         /\ AfterDelete(c, BaseDelete(Reg, sid, cs), op, sid, None, cs, todo,
                        procs[sid] # None)
         /\ prevPath' = IF procs[sid] # None
                        THEN [prevPath EXCEPT ![sid] = StoragePath(obj[procs[sid]].psid)]
                        ELSE prevPath
    ELSE /\ prevPath' = IF ObjStoragePath(obj[a]) # <<>>
                        THEN [prevPath EXCEPT ![sid] = ObjStoragePath(obj[a])]
                        ELSE prevPath
         /\ IF obj[a].model
            THEN \* await self._model.cleanup() -> await self._process.stop()
                 /\ Go(c, [At("del_stop", op, sid, a, cs, todo) EXCEPT !.busy = RunInFlight(a)])
                 /\ preserved' = IF op = "permdel" THEN preserved \ {sid} ELSE preserved
                 /\ UNCHANGED <<agents, procs, obj, store, disk, delRet>>
            ELSE AfterCleanup(c, CleanedNoModel(Reg, a), op, sid, a, cs, todo)

\* ------------------------------------------------ create / restore
\* POST /api/agents with a role and a manager_id in the request, up to the
\* awaited process start
CreateAs(c, role, mid) ==
    /\ UNCHANGED <<runVars, before, wstore, libVars>>
    /\ call[c].pc = "idle"
    /\ nextObj <= MaxObj /\ nextId <= MaxIds
    /\ SetReg([Construct(Reg, nextObj, NewSid(None, nextId))
                  EXCEPT !.obj[nextObj].role = role, !.obj[nextObj].manager_id = mid])
    /\ nextObj' = nextObj + 1
    /\ nextId' = nextId + 1
    /\ Go(c, At("cr_init", "create", None, nextObj, FALSE, {}))
    /\ UNCHANGED <<preserved, prevPath, delRet>>

\* POST /api/agents with the request's defaults (a worker without a manager),
\* up to the awaited process start
CreateStart(c) ==
    /\ UNCHANGED <<runVars, before, wstore, libVars>>
    /\ call[c].pc = "idle"
    /\ nextObj <= MaxObj /\ nextId <= MaxIds
    /\ SetReg(Construct(Reg, nextObj, NewSid(None, nextId)))
    /\ nextObj' = nextObj + 1
    /\ nextId' = nextId + 1
    /\ Go(c, At("cr_init", "create", None, nextObj, FALSE, {}))
    /\ UNCHANGED <<preserved, prevPath, delRet>>

\* POST /api/agents/{id}/restore up to the awaited process start
RestoreStart(c, sid) ==
    /\ UNCHANGED <<runVars, before, wstore, libVars>>
    /\ call[c].pc = "idle"
    /\ UNCHANGED <<preserved, prevPath, delRet>>
    /\ IF store[sid].st = "none" THEN
            /\ Go(c, Done("restore", sid, None, "404"))
            /\ UNCHANGED <<agents, procs, obj, store, disk, nextObj, nextId>>
       ELSE IF store[sid].st # "deleted" \/ agents[sid] # None THEN
            /\ Go(c, Done("restore", sid, None, "400"))
            /\ UNCHANGED <<agents, procs, obj, store, disk, nextObj, nextId>>
       ELSE LET req == RestoreRequestId(sid) IN
            /\ nextObj <= MaxObj
            /\ req = None => nextId <= MaxIds
            /\ SetReg(Construct(Reg, nextObj, NewSid(req, nextId)))
            /\ nextObj' = nextObj + 1
            /\ nextId' = IF req = None THEN nextId + 1 ELSE nextId
            /\ Go(c, At("cr_init", "restore", sid, nextObj, FALSE, {}))

\* The process came up: initialize() completes and create_agent_session registers
CreateInitOk(c) ==
    /\ UNCHANGED <<runVars, before, wstore, libVars>>
    /\ call[c].pc = "cr_init"
    /\ SetReg(Registered(Initialized(Reg, call[c].obj), call[c].obj, call[c].sid))
    /\ Go(c, Done(call[c].op, call[c].sid, call[c].obj, "ok"))
    /\ UNCHANGED <<nextObj, nextId, preserved, prevPath, delRet>>

\* The process failed to start: status ERROR, RuntimeError, nothing registered
CreateInitFail(c) ==
    /\ UNCHANGED <<runVars, before, wstore, libVars>>
    /\ call[c].pc = "cr_init"
    /\ obj' = [obj EXCEPT ![call[c].obj] = [NoObj EXCEPT !.status = "error", !.error_message = "init"]]
    /\ Go(c, Done(call[c].op, call[c].sid, call[c].obj, "500"))
    /\ UNCHANGED <<agents, procs, store, disk, nextObj, nextId, preserved, prevPath, delRet>>

\* ------------------------------------------------ delete
\* DELETE /api/agents/{id}?cleanup_storage=cs
DeleteStart(c, sid, cs) ==
    /\ UNCHANGED <<runVars, before, wstore, libVars>>
    /\ call[c].pc = "idle"
    /\ DeleteSession(c, "delete", sid, cs, {})
    /\ UNCHANGED <<nextObj, nextId>>

\* process.stop() returned: cleanup() finishes and delete_session goes on
DeleteStopped(c) ==
    /\ UNCHANGED <<runVars, before, wstore, libVars>>
    /\ call[c].pc = "del_stop"
    /\ LET k == call[c] IN
       AfterCleanup(c, CleanedUp(Reg, k.obj), k.op, k.sid, k.obj, k.cs, k.todo)
    /\ UNCHANGED <<nextObj, nextId, prevPath>>

\* DELETE /api/agents/{id}/permanent
PermanentDeleteStart(c, sid) ==
    /\ UNCHANGED <<runVars, before, wstore, libVars>>
    /\ call[c].pc = "idle"
    /\ UNCHANGED <<nextObj, nextId>>
    /\ IF agents[sid] # None
       THEN \* await agent_manager.delete_session(session_id, cleanup_storage=True)
            DeleteSession(c, "permdel", sid, TRUE, {})
       ELSE /\ SetReg([RemoveStorage(Reg, sid) EXCEPT !.store[sid] = NoRecord])
            /\ Go(c, Done("permdel", sid, None,
                          IF store[sid].st = "none" THEN "404" ELSE "ok"))
            /\ preserved' = preserved \ {sid}
            /\ UNCHANGED <<prevPath, delRet>>

\* ------------------------------------------------ bare-process sessions, upgrade
\* SessionManager.create_session, inherited by the manager: a session held as a bare
\* ClaudeProcess in _local_processes, with its storage directory and store record
LegacyCreate(c) ==
    /\ UNCHANGED <<runVars, before, wstore, libVars>>
    /\ call[c].pc = "idle"
    /\ nextObj <= MaxObj /\ nextId <= MaxIds
    /\ SetReg([Reg EXCEPT !.obj[nextObj] = [NoObj EXCEPT !.psid = nextId, !.alive = TRUE],
                          !.procs[nextId] = nextObj,
                          !.disk = @ \cup {StoragePath(nextId)},
                          !.store[nextId] = Register(StoragePath(nextId))])
    /\ nextObj' = nextObj + 1
    /\ nextId' = nextId + 1
    /\ Go(c, Done("legacy_create", nextId, nextObj, "ok"))
    /\ UNCHANGED <<preserved, prevPath, delRet>>

\* upgrade_to_agent(session_id): no await, one step
Upgrade(c, sid) ==
    /\ UNCHANGED <<runVars, before, wstore, libVars>>
    /\ call[c].pc = "idle"
    /\ UNCHANGED <<nextObj, nextId, store, disk, procs, preserved, prevPath, delRet>>
    /\ IF agents[sid] # None THEN
            /\ Go(c, Done("upgrade", sid, agents[sid], "ok"))
            /\ UNCHANGED <<agents, obj>>
       ELSE IF procs[sid] = None THEN
            /\ Go(c, Done("upgrade", sid, None, "404"))
            /\ UNCHANGED <<agents, obj>>
       ELSE LET p == procs[sid] IN
            /\ obj' = [obj EXCEPT ![p] = [@ EXCEPT !.asid = FromProcessSid(obj[p]),
                                                   !.model = TRUE, !.init = TRUE,
                                                   !.status = "running"]]
            /\ agents' = [agents EXCEPT ![sid] = p]
            /\ Go(c, Done("upgrade", sid, p, "ok"))

\* The external assistant process of a session exits on its own
ProcessDies(o) ==
    /\ UNCHANGED <<runVars, before, wstore, libVars>>
    /\ obj[o].alive
    /\ obj' = [obj EXCEPT ![o] = [@ EXCEPT !.alive = FALSE]]
    /\ ret' = NoRet
    /\ UNCHANGED <<agents, procs, nextObj, nextId, store, disk, call,
                   preserved, prevPath, delRet>>

\* ------------------------------------------------ cleanup_dead_sessions
\* One element of each loop per step: the steps of one call may be separated by
\* other handlers' steps more often than the event loop separates them, so the
\* behaviours of the code are among those of these actions.
DeadAgents == {sid \in Ids : agents[sid] # None /\ ~IsAlive(obj[agents[sid]])}

DeadProcesses ==
    {sid \in Ids : procs[sid] # None /\ agents[sid] = None /\ ~obj[procs[sid]].alive}

CleanupDeadStart(c) ==
    /\ UNCHANGED <<runVars, before, wstore, libVars>>
    /\ call[c].pc = "idle"
    /\ Go(c, At("cd_loop", "cleanup_dead", None, None, TRUE, DeadAgents))
    /\ UNCHANGED <<agents, procs, obj, nextObj, nextId, store, disk,
                   preserved, prevPath, delRet>>

\* for session_id in dead_agents: await self.delete_session(session_id)
CleanupDeadAgent(c) ==
    /\ UNCHANGED <<runVars, before, wstore, libVars>>
    /\ call[c].pc = "cd_loop"
    /\ call[c].todo # {}
    /\ \E sid \in call[c].todo : DeleteSession(c, "cleanup_dead", sid, TRUE, call[c].todo)
    /\ UNCHANGED <<nextObj, nextId>>

\* the agents are done: dead_processes is computed
CleanupDeadScan(c) ==
    /\ UNCHANGED <<runVars, before, wstore, libVars>>
    /\ call[c].pc = "cd_loop"
    /\ call[c].todo = {}
    /\ Go(c, At("cd_procs", "cleanup_dead", None, None, TRUE, DeadProcesses))
    /\ UNCHANGED <<agents, procs, obj, nextObj, nextId, store, disk,
                   preserved, prevPath, delRet>>

\* for session_id in dead_processes: await super().delete_session(session_id)
CleanupDeadProcess(c) ==
    /\ UNCHANGED <<runVars, before, wstore, libVars>>
    /\ call[c].pc = "cd_procs"
    /\ UNCHANGED <<nextObj, nextId, preserved, delRet>>
    /\ IF call[c].todo = {}
       THEN /\ Go(c, Done("cleanup_dead", None, None, "ok"))
            /\ UNCHANGED <<agents, procs, obj, store, disk, prevPath>>
       ELSE \E sid \in call[c].todo :
            /\ SetReg(BaseDelete(Reg, sid, BaseCleanupStorage))
            /\ prevPath' = IF procs[sid] # None
                           THEN [prevPath EXCEPT ![sid] = StoragePath(obj[procs[sid]].psid)]
                           ELSE prevPath
            /\ Go(c, At("cd_procs", "cleanup_dead", None, None, TRUE, call[c].todo \ {sid}))

\* ------------------------------------------------ invoke
SetStatus(a, v) == obj' = [obj EXCEPT ![a] = [@ EXCEPT !.status = v]]

\* A freshness check that raises without marking the session
\* (what StaleInvokeMarksError must rule out)
CheckFreshnessNoMark(o) == o

\* _check_freshness on should_reset, before it raises: the session object o
\* with status ERROR and the staleness as its error message
CheckFreshness(o) == [o EXCEPT !.status = "error", !.error_message = "stale"]

\* A failed run that marks the session as in error
\* (what StatusErrorOnlyStaleOrInit must rule out)
RunFinishedMarksError(o, res) ==
    IF res = "error" THEN [o EXCEPT !.status = "error", !.error_message = "graph"]
    ELSE [o EXCEPT !.status = "running"]

\* invoke after ainvoke returned a final state: status RUNNING, and the state's
\* error, if any, as the session's error message
RunFinished(o, res) ==
    [o EXCEPT !.status = "running",
              !.error_message = IF res = "error" THEN "graph" ELSE @]

\* POST /api/agents/{id}/invoke: invoke_agent and AgentSession.invoke up to
\* `await self._graph.ainvoke(...)`; the freshness evaluator's verdict is an input.
InvokeStart(c, sid, stale) ==
    /\ UNCHANGED <<runVars, before, wstore, libVars>>
    /\ call[c].pc = "idle"
    /\ UNCHANGED <<agents, procs, nextObj, nextId, store, disk, preserved, prevPath, delRet>>
    /\ LET a == agents[sid] IN
       IF a = None THEN
            /\ Go(c, Done("invoke", sid, None, "404"))
            /\ UNCHANGED obj
       ELSE IF ~obj[a].init THEN
            /\ Go(c, Done("invoke", sid, a, "400"))
            /\ UNCHANGED obj
       ELSE IF stale THEN
            \* _check_freshness: status ERROR, RuntimeError
            /\ obj' = [obj EXCEPT ![a] = CheckFreshness(obj[a])]
            /\ Go(c, Done("invoke", sid, a, "stale"))
       ELSE /\ SetStatus(a, "running")
            /\ Go(c, At("n_guard", "invoke", sid, a, FALSE, {}))

\* node context_guard
NodeGuard(c) ==
    /\ UNCHANGED <<runVars, before, wstore, libVars>>
    /\ call[c].pc = "n_guard"
    /\ Go(c, [call[c] EXCEPT !.pc = "n_agent"])
    /\ UNCHANGED <<agents, procs, obj, nextObj, nextId, store, disk,
                   preserved, prevPath, delRet>>

\* node agent up to `await self._model.ainvoke(messages)`; with self._model None
\* the AttributeError is caught and the node returns an error
NodeAgent(c) ==
    /\ UNCHANGED <<runVars, before, wstore, libVars>>
    /\ call[c].pc = "n_agent"
    /\ Go(c, IF obj[call[c].obj].model
             THEN [call[c] EXCEPT !.pc = "n_model"]
             ELSE [call[c] EXCEPT !.pc = "n_post", !.res = "error"])
    /\ UNCHANGED <<agents, procs, obj, nextObj, nextId, store, disk,
                   preserved, prevPath, delRet>>

\* the model call returns a response, or raises
ModelReturns(c, ok) ==
    /\ UNCHANGED <<runVars, before, wstore, libVars>>
    /\ call[c].pc = "n_model"
    /\ ok => obj[call[c].obj].alive
    /\ Go(c, [call[c] EXCEPT !.pc = "n_post", !.res = IF ok THEN "none" ELSE "error"])
    /\ UNCHANGED <<agents, procs, obj, nextObj, nextId, store, disk,
                   preserved, prevPath, delRet>>

\* node process_output; _should_continue ends a single-execution run
NodePost(c) ==
    /\ UNCHANGED <<runVars, before, wstore, libVars>>
    /\ call[c].pc = "n_post"
    /\ Go(c, [call[c] EXCEPT !.pc = "n_end"])
    /\ UNCHANGED <<agents, procs, obj, nextObj, nextId, store, disk,
                   preserved, prevPath, delRet>>

\* ainvoke returned: `self._status = SessionStatus.RUNNING`, the text result
InvokeFinish(c) ==
    /\ UNCHANGED <<runVars, before, wstore, libVars>>
    /\ call[c].pc = "n_end"
    /\ obj' = [obj EXCEPT ![call[c].obj] = RunFinished(@, call[c].res)]
    /\ Go(c, Done("invoke", call[c].sid, call[c].obj,
                  IF call[c].res = "error" THEN "Error" ELSE "ok"))
    /\ UNCHANGED <<agents, procs, nextObj, nextId, store, disk, preserved, prevPath, delRet>>

\* POST /api/agents/{id}/stop: stop_execution looks the session up, logs the
\* request and answers success; it holds no reference to a run
StopExecution(c, sid) ==
    /\ UNCHANGED <<runVars, before, wstore, libVars>>
    /\ call[c].pc = "idle"
    /\ Go(c, Done("stop", sid, agents[sid], IF agents[sid] = None THEN "404" ELSE "ok"))
    /\ UNCHANGED <<agents, procs, obj, nextObj, nextId, store, disk,
                   preserved, prevPath, delRet>>

\* ------------------------------------------------ the session's own methods
\* The holder of an AgentSession calls its methods and awaits each of them
\* before the next call on the same object.
\* AgentSession(...): the constructor, no model yet
SessionNew ==
    /\ UNCHANGED <<runVars, wstore, libVars>>
    /\ nextObj <= MaxObj /\ nextId <= MaxIds
    /\ obj' = [obj EXCEPT ![nextObj] =
                   [Construct(Reg, nextObj, NewSid(None, nextId)).obj[nextObj]
                        EXCEPT !.model = FALSE]]
    /\ nextObj' = nextObj + 1
    /\ nextId' = nextId + 1
    /\ ret' = [op |-> "session_new", sid |-> NewSid(None, nextId), res |-> "ok"]
    /\ before' = [obj |-> None, was |-> NoObj]
    /\ UNCHANGED <<agents, procs, store, disk, call, preserved, prevPath, delRet>>

\* await agent.initialize()
SessionInitialize(o, ok) ==
    /\ UNCHANGED <<runVars, wstore, libVars>>
    /\ obj[o].status # "none"
    /\ SetReg(Initialize(Reg, o, ok))
    /\ ret' = [op |-> "session_initialize", sid |-> obj[o].asid,
               res |-> IF obj[o].init \/ ok THEN "true" ELSE "false"]
    /\ before' = [obj |-> o, was |-> obj[o]]
    /\ UNCHANGED <<nextObj, nextId, call, preserved, prevPath, delRet>>

\* await agent.stop()
SessionStop(o) ==
    /\ UNCHANGED <<runVars, wstore, libVars>>
    /\ obj[o].status # "none"
    /\ SetReg(Cleanup(Reg, o))
    /\ ret' = [op |-> "session_stop", sid |-> obj[o].asid, res |-> "ok"]
    /\ before' = [obj |-> o, was |-> obj[o]]
    /\ UNCHANGED <<nextObj, nextId, call, preserved, prevPath, delRet>>

\* ------------------------------------------------ workflow definitions
\* A guard that lets requests on templates through
\* (what TemplateWriteRejected must rule out)
NeverTemplate(w) == FALSE

\* update_workflow / delete_workflow: `if workflow.is_template: raise`
TemplateGuard(w) == w.is_template

\* POST /api/workflows: a new definition, never a template, under a fresh id
CreateWorkflow(name, graph) ==
    /\ UNCHANGED <<runVars, before, libVars>>
    /\ wstore.next <= MaxWorkflows
    /\ wstore' = [next |-> wstore.next + 1,
                  items |-> [wstore.items EXCEPT ![ToString(wstore.next)] =
                                [present |-> TRUE, is_template |-> FALSE,
                                 name |-> name, graph |-> graph]]]
    /\ ret' = [op |-> "create_workflow", sid |-> ToString(wstore.next), res |-> "ok"]
    /\ UNCHANGED <<agents, procs, obj, nextObj, nextId, store, disk, call,
                   preserved, prevPath, delRet>>

\* PUT /api/workflows/{id}: the fields of the request that are not None
\* replace the stored ones
UpdateWorkflow(id, name, graph) ==
    LET w == wstore.items[id] IN
    /\ UNCHANGED <<runVars, before, libVars>>
    /\ IF ~w.present
       THEN /\ ret' = [op |-> "update_workflow", sid |-> id, res |-> "404"]
            /\ UNCHANGED wstore
       ELSE IF TemplateGuard(w)
       THEN /\ ret' = [op |-> "update_workflow", sid |-> id, res |-> "400"]
            /\ UNCHANGED wstore
       ELSE /\ ret' = [op |-> "update_workflow", sid |-> id, res |-> "ok"]
            /\ wstore' = [wstore EXCEPT !.items[id] =
                             [w EXCEPT !.name = IF name # "None" THEN name ELSE @,
                                       !.graph = IF graph # "None" THEN graph ELSE @]]
    /\ UNCHANGED <<agents, procs, obj, nextObj, nextId, store, disk, call,
                   preserved, prevPath, delRet>>

\* DELETE /api/workflows/{id}
DeleteWorkflow(id) ==
    LET w == wstore.items[id] IN
    /\ UNCHANGED <<runVars, before, libVars>>
    /\ IF ~w.present
       THEN /\ ret' = [op |-> "delete_workflow", sid |-> id, res |-> "404"]
            /\ UNCHANGED wstore
       ELSE IF TemplateGuard(w)
       THEN /\ ret' = [op |-> "delete_workflow", sid |-> id, res |-> "400"]
            /\ UNCHANGED wstore
       ELSE /\ ret' = [op |-> "delete_workflow", sid |-> id, res |-> "ok"]
            /\ wstore' = [wstore EXCEPT !.items[id] =
                             [present |-> FALSE, is_template |-> FALSE,
                              name |-> "none", graph |-> "none"]]
    /\ UNCHANGED <<agents, procs, obj, nextObj, nextId, store, disk, call,
                   preserved, prevPath, delRet>>

\* ------------------------------------------------ workflows
\* The workflows run here, as node instances and edges (source, port, target):
\*   linear       start -> llm -> post -> end
\*   gate_loop    start -> gate; gate -continue-> llm -> post -> gate; gate -stop-> end
\*   review_loop  as gate_loop with a second model call in the loop, the first
\*                post_model with detect_completion off and the second with it
\*                on (post_ans and post_rev of the autonomous template)
\*   reset_loop   as gate_loop with a state_setter between post and gate whose
\*                state_updates is {"iteration": 0}
\*   review_retry start -> answer -> review; review -approved-> end,
\*                review -retry-> answer; max_retries 2
\*   medium       the medium path of the autonomous template: answer ->
\*                post_ans -> review -> post_rev -> rev_router; rev_router
\*                -approved-> end, -retry-> gate_med, -end-> end; gate_med
\*                -continue-> answer, -stop-> end
\*   simple       the session's simple graph: agent -> process_output, then
\*                back to agent or to the end
\*   converge     a review whose two ports lead to the same target
\*   triage       classify with the categories easy, medium, hard, each with a
\*                path of its own, and the port end
\*   triage2      classify with the categories easy, hard and the default
\*                category of the node type, medium
\*   dangling     a workflow whose post_model node has no outgoing edge
\*   hard         the hard path of the autonomous template up to its final
\*                review: mk_todos -> post_todos -> exec_todo -> post_exec ->
\*                chk_prog; chk_prog -continue-> gate_hard, -complete-> end;
\*                gate_hard -continue-> exec_todo, -stop-> end, where end
\*                stands for guard_fr, the entry of the final chain
\* context_guard and memory nodes write none of the fields kept here and are
\* left out of the paths.
Workflows == {"linear", "gate_loop", "review_loop", "reset_loop",
              "review_retry", "medium", "simple", "converge", "dangling",
              "triage", "triage2", "hard"}

Edge(s, p, t) == [source |-> s, port |-> p, target |-> t]

Edges(w) ==
    CASE w = "linear" ->
            {Edge("start", "default", "llm"), Edge("llm", "default", "post"),
             Edge("post", "default", "end")}
      [] w = "gate_loop" ->
            {Edge("start", "default", "gate"), Edge("gate", "continue", "llm"),
             Edge("gate", "stop", "end"), Edge("llm", "default", "post"),
             Edge("post", "default", "gate")}
      [] w = "review_loop" ->
            {Edge("start", "default", "gate"), Edge("gate", "continue", "llm"),
             Edge("gate", "stop", "end"), Edge("llm", "default", "post"),
             Edge("post", "default", "llm2"), Edge("llm2", "default", "post2"),
             Edge("post2", "default", "gate")}
      [] w = "reset_loop" ->
            {Edge("start", "default", "gate"), Edge("gate", "continue", "llm"),
             Edge("gate", "stop", "end"), Edge("llm", "default", "post"),
             Edge("post", "default", "setter"), Edge("setter", "default", "gate")}
      [] w = "review_retry" ->
            {Edge("start", "default", "answer"), Edge("answer", "default", "review"),
             Edge("review", "approved", "end"), Edge("review", "retry", "answer")}
      [] w = "medium" ->
            {Edge("start", "default", "answer"), Edge("answer", "default", "post_ans"),
             Edge("post_ans", "default", "review"), Edge("review", "default", "post_rev"),
             Edge("post_rev", "default", "rev_router"),
             Edge("rev_router", "approved", "end"), Edge("rev_router", "retry", "gate_med"),
             Edge("rev_router", "end", "end"),
             Edge("gate_med", "continue", "answer"), Edge("gate_med", "stop", "end")}
      [] w = "simple" ->
            {Edge("start", "default", "agent"), Edge("agent", "default", "process_output"),
             Edge("process_output", "continue", "agent"),
             Edge("process_output", "end", "end")}
      [] w = "converge" ->
            {Edge("start", "default", "answer"), Edge("answer", "default", "review"),
             Edge("review", "approved", "end"), Edge("review", "retry", "end")}
      [] w = "triage" ->
            {Edge("start", "default", "classify"),
             Edge("classify", "easy", "llm"), Edge("classify", "medium", "answer"),
             Edge("classify", "hard", "llm2"), Edge("classify", "end", "end"),
             Edge("llm", "default", "post"), Edge("post", "default", "end"),
             Edge("answer", "default", "end"),
             Edge("llm2", "default", "post2"), Edge("post2", "default", "end")}
      [] w = "triage2" ->
            {Edge("start", "default", "classify"),
             Edge("classify", "easy", "llm"), Edge("classify", "hard", "answer"),
             Edge("classify", "end", "end"),
             Edge("llm", "default", "post"), Edge("post", "default", "end"),
             Edge("answer", "default", "end")}
      [] w = "dangling" ->
            {Edge("start", "default", "gate"), Edge("gate", "continue", "llm"),
             Edge("gate", "stop", "end"), Edge("llm", "default", "post")}
      [] w = "hard" ->
            {Edge("start", "default", "mk_todos"),
             Edge("mk_todos", "default", "post_todos"),
             Edge("post_todos", "default", "exec_todo"),
             Edge("exec_todo", "default", "post_exec"),
             Edge("post_exec", "default", "chk_prog"),
             Edge("chk_prog", "continue", "gate_hard"),
             Edge("chk_prog", "complete", "end"),
             Edge("gate_hard", "continue", "exec_todo"),
             Edge("gate_hard", "stop", "end")}
      [] OTHER -> {}

NodeType(n) ==
    CASE n \in {"gate", "gate_med", "gate_hard"} -> "iteration_gate"
      [] n \in {"post_ans", "post_rev", "post_todos", "post_exec"} -> "post_model"
      [] n = "mk_todos" -> "create_todos"
      [] n = "exec_todo" -> "execute_todo"
      [] n = "chk_prog" -> "check_progress"
      [] n = "rev_router" -> "conditional_router"
      [] n = "setter" -> "state_setter"
      [] n \in {"llm", "llm2"} -> "llm_call"
      [] n \in {"post", "post2"} -> "post_model"
      [] OTHER -> n

NoCfg == [max_iterations |-> 0, detect |-> FALSE, check_iteration |-> FALSE, own |-> 0,
          max_iterations_override |-> 0, check_budget |-> TRUE,
          check_completion |-> TRUE, custom_stop_field |-> "",
          autonomous |-> FALSE]

\* config.get("detect_completion", True) of post_model instance n of workflow w
DetectCompletion(w, n, c) ==
    IF w = "review_loop" THEN n = "post2"
    ELSE IF w = "medium" THEN n = "post_rev"
    ELSE IF w = "hard" THEN n = "post_exec"
    ELSE c.detect

\* config "categories" of the classify instance of workflow w, as
\* _parse_categories returns them
Categories(w) ==
    IF w = "triage2" THEN <<"easy", "hard">> ELSE <<"easy", "medium", "hard">>

\* config "default_category" of the classify instance (default "medium")
DefaultCategory(w) == "medium"

\* config "max_retries" of the review instance of workflow w (default 3)
ReviewMaxRetries(w) == IF w = "review_retry" THEN 2 ELSE 3

\* the session runs this graph in autonomous mode
Autonomous(w) == w = "medium"

\* graphs a session runs through AgentSession.invoke; the others are run by
\* POST /api/workflows/{id}/execute
SessionGraphs == {"medium", "simple"}

\* make_initial_autonomous_state: iteration 0, max_iterations, nothing else set
InitialState(max) ==
    [iteration |-> 0, max_iterations |-> max, is_complete |-> FALSE,
     error |-> "None", completion_signal |-> "None", gate_stop_reason |-> "None",
     last_output |-> "", answer |-> "", final_answer |-> "", review_count |-> 0,
     review_result |-> "None", difficulty |-> "None", context_budget |-> "None",
     todos |-> << >>, current_todo_index |-> 0]

\* the runtime's rule for a todo-like list: a delta of one item replaces the
\* item at current_todo_index (counted from 0), any other delta replaces the
\* list
MergeTodos(old, delta, index) ==
    IF Len(delta) = 1 /\ index + 1 \in DOMAIN old
    THEN [old EXCEPT ![index + 1] = delta[1]]
    ELSE delta

\* the runtime merges a node's partial update into the state, field by field
Merge(s, u) ==
    [f \in DOMAIN s |->
        IF f \notin DOMAIN u THEN s[f]
        ELSE IF f = "todos" THEN MergeTodos(s.todos, u.todos, s.current_todo_index)
        ELSE u[f]]

\* what the model can answer: nothing, plain text, or text carrying a signal
Outputs == {"", "text", "done. [TASK_COMPLETE]", "[BLOCKED: why]", "[ERROR: why]",
            "[CONTINUE: hint]"}

\* detect_completion_signal: the signal carried by a text, none without one
DetectCompletionSignal(out) ==
    CASE out = "done. [TASK_COMPLETE]" -> "complete"
      [] out = "[BLOCKED: why]" -> "blocked"
      [] out = "[ERROR: why]" -> "error"
      [] out = "[CONTINUE: hint]" -> "continue"
      [] OTHER -> "none"

StopSignals == {"complete", "blocked", "error"}

\* ------------------------------------------------ nodes
\* the iteration limit of a gate: its override when positive, else the state's
GateMaxIterations(s, c) ==
    IF c.max_iterations_override > 0 THEN c.max_iterations_override ELSE s.max_iterations

\* state.get(custom_stop_field) is truthy; the field is final_answer when set
CustomStop(s, c) == c.custom_stop_field = "final_answer" /\ s.final_answer # ""

\* An iteration gate that lets the loop run while iteration <= max_iterations
\* (what GateLoopBound must rule out)
IterationGateLate(s, c) ==
    IF c.check_iteration /\ s.iteration > GateMaxIterations(s, c)
    THEN [is_complete |-> TRUE, gate_stop_reason |-> "Iteration limit"]
    ELSE IF c.check_budget /\ s.context_budget \in {"block", "overflow"}
    THEN [is_complete |-> TRUE, gate_stop_reason |-> "Context budget"]
    ELSE IF c.check_completion /\ s.completion_signal \in StopSignals
    THEN [is_complete |-> TRUE, gate_stop_reason |-> "Completion signal"]
    ELSE IF CustomStop(s, c)
    THEN [is_complete |-> TRUE, gate_stop_reason |-> "Custom stop"]
    ELSE [gate_stop_reason |-> "None"]

\* An iteration gate that looks at the completion signal before the budget
\* (what GateStopsExactlyOnTrigger must rule out)
IterationGateSignalFirst(s, c) ==
    IF c.check_iteration /\ s.iteration >= GateMaxIterations(s, c)
    THEN [is_complete |-> TRUE, gate_stop_reason |-> "Iteration limit"]
    ELSE IF c.check_completion /\ s.completion_signal \in StopSignals
    THEN [is_complete |-> TRUE, gate_stop_reason |-> "Completion signal"]
    ELSE IF c.check_budget /\ s.context_budget \in {"block", "overflow"}
    THEN [is_complete |-> TRUE, gate_stop_reason |-> "Context budget"]
    ELSE IF CustomStop(s, c)
    THEN [is_complete |-> TRUE, gate_stop_reason |-> "Custom stop"]
    ELSE [gate_stop_reason |-> "None"]

\* IterationGateNode.execute: the four checks in the code's order, each behind
\* its switch, the first that triggers giving the stop reason
IterationGate(s, c) ==
    IF c.check_iteration /\ s.iteration >= GateMaxIterations(s, c)
    THEN [is_complete |-> TRUE, gate_stop_reason |-> "Iteration limit"]
    ELSE IF c.check_budget /\ s.context_budget \in {"block", "overflow"}
    THEN [is_complete |-> TRUE, gate_stop_reason |-> "Context budget"]
    ELSE IF c.check_completion /\ s.completion_signal \in StopSignals
    THEN [is_complete |-> TRUE, gate_stop_reason |-> "Completion signal"]
    ELSE IF CustomStop(s, c)
    THEN [is_complete |-> TRUE, gate_stop_reason |-> "Custom stop"]
    ELSE [gate_stop_reason |-> "None"]

\* IterationGateNode.get_routing_function: _route
GateRoute(s) == IF s.is_complete \/ s.error # "None" THEN "stop" ELSE "continue"

\* A post_model that writes completion_signal only when it parsed an output
\* (what SignalWrittenWhenDetecting must rule out)
PostModelNoReset(s, detect) ==
    IF detect /\ s.last_output # ""
    THEN [iteration |-> s.iteration + 1,
          completion_signal |-> DetectCompletionSignal(s.last_output)]
    ELSE [iteration |-> s.iteration + 1]

\* A post_model that counts an execution twice
\* (what IterationStepsByPostModel must rule out)
PostModelTwice(s, detect) ==
    IF detect
    THEN [iteration |-> s.iteration + 2,
          completion_signal |-> IF s.last_output = "" THEN "none"
                                ELSE DetectCompletionSignal(s.last_output)]
    ELSE [iteration |-> s.iteration + 2]

\* PostModelNode.execute with increment_field "iteration", source_field "last_output"
PostModel(s, detect) ==
    IF detect /\ s.last_output = ""
    THEN [iteration |-> s.iteration + 1, completion_signal |-> "none"]
    ELSE IF detect
    THEN [iteration |-> s.iteration + 1,
          completion_signal |-> DetectCompletionSignal(s.last_output)]
    ELSE [iteration |-> s.iteration + 1]

\* LLMCallNode.execute with output_field "last_output", set_complete off
LLMCall(s, out) == [last_output |-> out]

\* the update of a model node whose model call raised, caught by the node
NodeError == [error |-> "model error", is_complete |-> TRUE]

\* AnswerNode.execute with output_fields ["answer"]
Answer(s, out) == [last_output |-> out, answer |-> out]

Verdicts == {"approved", "retry"}

\* A default that falls back to the first category
\* (what UnmatchedGetsEffectiveDefault must rule out)
DefaultCatFirst(cats, dflt) ==
    IF \E i \in 1..Len(cats) : cats[i] = dflt THEN dflt ELSE cats[1]

\* default_cat of ClassifyNode.execute and of its routing function: the
\* configured default_category when it is a category, else the second
\* category, or the only one
DefaultCat(cats, dflt) ==
    IF \E i \in 1..Len(cats) : cats[i] = dflt THEN dflt
    ELSE IF Len(cats) > 1 THEN cats[2] ELSE cats[1]

\* ClassifyNode.execute: the reply coerced to a category, default_cat when it
\* matches none, written to output_field "difficulty" and to last_output
Classify(s, reply, cats, dflt) ==
    LET matched == IF \E i \in 1..Len(cats) : cats[i] = reply THEN reply
                   ELSE DefaultCat(cats, dflt) IN
    [difficulty |-> matched, last_output |-> matched]

\* ClassifyNode.get_routing_function
ClassifyRoute(s, cats, dflt) ==
    IF s.error # "None" THEN "end"
    ELSE IF \E i \in 1..Len(cats) : cats[i] = s.difficulty THEN s.difficulty
    ELSE DefaultCat(cats, dflt)

\* A review that never forces the first verdict
\* (what ReviewForcedAtMaxRetries must rule out)
ReviewNeverForces(s, verdict, max_retries) ==
    IF verdict = "approved"
    THEN [review_result |-> verdict, review_count |-> s.review_count + 1,
          last_output |-> "VERDICT: approved",
          final_answer |-> s.answer, is_complete |-> TRUE]
    ELSE [review_result |-> verdict, review_count |-> s.review_count + 1,
          last_output |-> "VERDICT: retry"]

\* ReviewNode.execute with verdicts ["approved", "retry"]: `verdict` is the
\* parsed verdict of the model
Review(s, verdict, max_retries) ==
    LET review_count == s.review_count + 1
        matched == IF verdict # "approved" /\ review_count >= max_retries
                   THEN "approved" ELSE verdict
    IN  IF matched = "approved"
        THEN [review_result |-> matched, review_count |-> review_count,
              last_output |-> "VERDICT: approved",
              final_answer |-> s.answer, is_complete |-> TRUE]
        ELSE [review_result |-> matched, review_count |-> review_count,
              last_output |-> "VERDICT: retry"]

\* ReviewNode.get_routing_function: _route
ReviewRoute(s) ==
    IF s.error # "None" THEN "end"
    ELSE IF s.is_complete
    THEN (IF s.review_result \in Verdicts THEN s.review_result ELSE "approved")
    ELSE IF s.completion_signal \in {"complete", "blocked"} THEN "approved"
    ELSE IF s.review_result \in Verdicts THEN s.review_result
    ELSE "retry"

\* ConditionalRouterNode.get_routing_function with the template's rev_router
\* config: routing_field review_result, route_map approved -> approved,
\* rejected -> retry, default_port end
RouterRoute(s) ==
    CASE s.review_result = "approved" -> "approved"
      [] s.review_result = "rejected" -> "retry"
      [] OTHER -> "end"

\* AgentSession._agent_node on a model response
Agent(s, out) == [last_output |-> out, error |-> "None"]

\* AgentSession._process_output_node
ProcessOutput(s) ==
    IF DetectCompletionSignal(s.last_output) \in StopSignals
    THEN [iteration |-> s.iteration + 1,
          completion_signal |-> DetectCompletionSignal(s.last_output),
          is_complete |-> TRUE]
    ELSE [iteration |-> s.iteration + 1,
          completion_signal |-> DetectCompletionSignal(s.last_output)]

\* A loop that stops one iteration after the limit
\* (what SimpleRunStops must rule out)
ShouldContinueLate(s, autonomous) ==
    IF s.is_complete \/ s.error # "None" THEN "end"
    ELSE IF ~autonomous \/ s.max_iterations <= 1 THEN "end"
    ELSE IF s.iteration > s.max_iterations THEN "end"
    ELSE IF s.completion_signal \in StopSignals THEN "end"
    ELSE "continue"

\* AgentSession._should_continue of a session with the given autonomous flag
ShouldContinue(s, autonomous) ==
    IF s.is_complete \/ s.error # "None" THEN "end"
    ELSE IF ~autonomous \/ s.max_iterations <= 1 THEN "end"
    ELSE IF s.iteration >= s.max_iterations THEN "end"
    ELSE IF s.completion_signal \in StopSignals THEN "end"
    ELSE "continue"

\* CreateTodosNode.execute when the model answered with a list of n items:
\* n pending items without a result, the index at 0
CreateTodos(s, n) ==
    [todos |-> [k \in 1..n |-> [id |-> k, status |-> "pending", result |-> "None"]],
     current_todo_index |-> 0, last_output |-> "text"]

\* An execute_todo that leaves the index where it is when the model call fails
\* (what TodoReplacedInPlace must rule out)
ExecuteTodoStaysOnFailure(s, out, ok) ==
    LET i == s.current_todo_index IN
    IF i >= Len(s.todos) THEN [f \in {} |-> 0]
    ELSE IF ok
    THEN [todos |-> <<[s.todos[i + 1] EXCEPT !.status = "completed", !.result = out]>>,
          current_todo_index |-> i + 1, last_output |-> out]
    ELSE [todos |-> <<[s.todos[i + 1] EXCEPT !.status = "failed", !.result = "Error"]>>,
          last_output |-> "Error"]

\* ExecuteTodoNode.execute: past the end of the list nothing is written; else
\* the item at the index is completed with the model's text, or failed when
\* the model call raised, and the index moves on
ExecuteTodo(s, out, ok) ==
    LET i == s.current_todo_index IN
    IF i >= Len(s.todos) THEN [f \in {} |-> 0]
    ELSE IF ok
    THEN [todos |-> <<[s.todos[i + 1] EXCEPT !.status = "completed", !.result = out]>>,
          current_todo_index |-> i + 1, last_output |-> out]
    ELSE [todos |-> <<[s.todos[i + 1] EXCEPT !.status = "failed", !.result = "Error"]>>,
          current_todo_index |-> i + 1, last_output |-> "Error"]

\* A check_progress that goes on until the index is past the length
\* (what HardLoopBound must rule out)
CheckProgressRouteLate(s) ==
    IF s.is_complete \/ s.error # "None" THEN "complete"
    ELSE IF s.completion_signal \in {"complete", "blocked"} THEN "complete"
    ELSE IF s.current_todo_index > Len(s.todos) THEN "complete"
    ELSE "continue"

\* CheckProgressNode.get_routing_function: _route
CheckProgressRoute(s) ==
    IF s.is_complete \/ s.error # "None" THEN "complete"
    ELSE IF s.completion_signal \in {"complete", "blocked"} THEN "complete"
    ELSE IF s.current_todo_index >= Len(s.todos) THEN "complete"
    ELSE "continue"

\* config "state_updates" of state_setter instance n of workflow w
StateUpdates(w, n) == [iteration |-> 0]

\* StateSetterNode.execute: the configured updates are the node's update
StateSetter(updates) == updates

\* ------------------------------------------------ WorkflowExecutor
\* ainvoke(initial_state) is called without a config: the graph library's
\* default recursion_limit bounds the run's steps, one node per step here
RecursionLimit == 25

OutEdges(w, n) == {e \in Edges(w) : e.source = n}

\* A test that counts the ports instead of the targets
\* (what SingleTargetIsDirectEdge must rule out)
HasMultiplePorts(es) == Cardinality({e.port : e \in es}) > 1

\* _has_multiple_targets
HasMultipleTargets(es) == Cardinality({e.target : e \in es}) > 1

\* A compiler that wires only the sources with several targets
\* (what ReachableNodesWired must rule out)
WiringConditionalOnly(w, n) ==
    IF OutEdges(w, n) = {} THEN "none"
    ELSE IF n # "start" /\ HasMultipleTargets(OutEdges(w, n)) THEN "conditional"
    ELSE IF n = "start" THEN "direct"
    ELSE "none"

\* compile's wiring of source n: the start node and a source whose edges have
\* one target get a plain edge, a source with several targets conditional
\* edges; a node that is the source of no edge gets none
Wiring(w, n) ==
    IF OutEdges(w, n) = {} THEN "none"
    ELSE IF n # "start" /\ HasMultipleTargets(OutEdges(w, n)) THEN "conditional"
    ELSE "direct"

\* what the graph library's lookup of a port that is no key of the
\* port -> target map gives: a KeyError leaves ainvoke
NoTarget == "no_target"

\* compile's wiring: conditional edges through the node's routing function and
\* the port -> target map when the edges have several targets, else one edge
\* the routing function of node n: _should_continue reads the autonomous flag
\* of the session the simple graph belongs to
Route(n, s) ==
    CASE NodeType(n) = "iteration_gate" -> GateRoute(s)
      [] NodeType(n) = "classify" ->
            ClassifyRoute(s, Categories(wf), DefaultCategory(wf))
      [] NodeType(n) = "review" -> ReviewRoute(s)
      [] NodeType(n) = "conditional_router" -> RouterRoute(s)
      [] NodeType(n) = "process_output" -> ShouldContinue(s, cfg.autonomous)
      [] NodeType(n) = "check_progress" -> CheckProgressRoute(s)
      [] OTHER -> "default"

\* _build_edge_map: the port -> target map of the conditional wiring of n
EdgeMapKeys(w, n) == {e.port : e \in OutEdges(w, n)}

\* the output ports of node n of workflow w: output_ports of its node type,
\* or get_dynamic_output_ports of its configuration
Ports(w, n) ==
    CASE NodeType(n) = "iteration_gate" -> {"continue", "stop"}
      [] NodeType(n) = "review" -> Verdicts \cup {"end"}
      [] NodeType(n) = "classify" ->
            {Categories(w)[i] : i \in 1..Len(Categories(w))} \cup {"end"}
      [] NodeType(n) = "conditional_router" -> {"approved", "retry", "end"}
      [] NodeType(n) = "process_output" -> {"continue", "end"}
      [] NodeType(n) = "check_progress" -> {"continue", "complete"}
      [] OTHER -> {"default"}

\* the nodes that the edges of w reach from the nodes in S
RECURSIVE Reachable(_, _)
Reachable(w, S) ==
    LET T == S \cup {e.target : e \in {d \in Edges(w) : d.source \in S}} IN
    IF T = S THEN S ELSE Reachable(w, T)

\* WorkflowDefinition.validate_graph, TRUE when it returns no error: one start
\* node, an end node, no edge out of end or into start, every node but end
\* has an outgoing edge, every node is reached from start, and at a node
\* whose edges have several targets every edge leaves through a port the node
\* declares and every declared port has an edge, unless it is the optional
\* port end of a review or a classify (the built-in template leaves its
\* review through the port default, towards one target)
ValidateGraph(w) ==
    LET nodes == {e.source : e \in Edges(w)} \cup {e.target : e \in Edges(w)} IN
    /\ "start" \in nodes /\ "end" \in nodes
    /\ \A e \in Edges(w) : e.source # "end" /\ e.target # "start"
    /\ \A n \in nodes \ {"end"} : \E e \in Edges(w) : e.source = n
    /\ nodes \subseteq Reachable(w, {"start"})
    /\ \A n \in nodes \ {"start", "end"} :
          HasMultipleTargets(OutEdges(w, n)) =>
              /\ EdgeMapKeys(w, n) \subseteq Ports(w, n)
              /\ \A q \in Ports(w, n) :
                    \/ q \in EdgeMapKeys(w, n)
                    \/ q = "end" /\ NodeType(n) \in {"review", "classify"}

NextNode(w, n, s) ==
    LET es == OutEdges(w, n) IN
    CASE Wiring(w, n) = "conditional" ->
            IF Route(n, s) \in EdgeMapKeys(w, n)
            THEN (CHOOSE e \in es : e.port = Route(n, s)).target
            ELSE NoTarget
      [] Wiring(w, n) = "direct" -> (CHOOSE e \in es : TRUE).target
      [] OTHER -> "end"

\* the node's update is merged, the next node is found, the run ends at the end
\* node or with GraphRecursionError when the steps are used up
Advance(u) ==
    LET s == Merge(st, u)
        n == NextNode(wf, node, s) IN
    /\ st' = s
    /\ updated' = DOMAIN u
    /\ last' = node
    /\ steps' = steps + 1
    /\ node' = n
    /\ routed' = IF Wiring(wf, node) = "conditional" THEN Route(node, s) ELSE "none"
    /\ status' = IF n = "end" THEN "done"
                 ELSE IF n = NoTarget THEN "raised"
                 ELSE IF steps + 1 >= RecursionLimit THEN "recursion"
                 ELSE "running"
    /\ UNCHANGED <<wf, cfg, result, resilient>>

\* max_iterations of the initial state of a run that AgentSession.invoke starts
\* with max_iterations = n on a session whose autonomous_max_iterations is own:
\* _invoke_autonomous passes the session's value, the non-autonomous branch
\* `max_iterations or self._autonomous_max_iterations`
InvokeMaxIterations(autonomous, n, own) ==
    IF autonomous THEN own ELSE IF n # 0 THEN n ELSE own

\* WorkflowExecutor.run(input_text, max_iterations), or AgentSession.invoke for
\* a session's graph, up to the first node; compile raises ValueError when
\* validate_graph returns errors
RunStart(w, max, detect, chk, own, auto) ==
    /\ UNCHANGED <<regVars, before, wstore, libVars>>
    /\ status = "idle"
    /\ wf' = w
    /\ cfg' = [NoCfg EXCEPT !.max_iterations = max, !.detect = detect,
                            !.check_iteration = chk,
                            !.own = IF w \in SessionGraphs THEN own ELSE 0,
                            !.autonomous = IF w = "simple" THEN auto
                                           ELSE Autonomous(w)]
    /\ st' = InitialState(IF w \in SessionGraphs
                          THEN InvokeMaxIterations(Autonomous(w), max, own)
                          ELSE max)
    /\ node' = IF ValidateGraph(w) THEN NextNode(w, "start", InitialState(max))
               ELSE "start"
    /\ status' = IF ValidateGraph(w) THEN "running" ELSE "raised"
    /\ UNCHANGED <<updated, last, steps, visits, rejects, loops, turns, result, resilient, routed,
                   raw>>

ExecGate ==
    /\ UNCHANGED <<regVars, before, wstore, libVars>>
    /\ status = "running" /\ NodeType(node) = "iteration_gate"
    /\ visits' = visits + 1
    /\ Advance(IterationGate(st, cfg))
    /\ UNCHANGED <<rejects, loops, turns, raw>>

\* llm_call: the model answers (resilient_invoke returns)
ExecLLM(out) ==
    /\ UNCHANGED <<regVars, before, wstore, libVars>>
    /\ status = "running" /\ NodeType(node) = "llm_call"
    /\ Advance(LLMCall(st, out))
    /\ UNCHANGED <<visits, rejects, loops, turns, raw>>

\* llm_call: resilient_invoke raises; nothing catches it and ainvoke raises
ExecLLMRaises ==
    /\ UNCHANGED <<regVars, before, wstore, libVars>>
    /\ status = "running" /\ NodeType(node) = "llm_call"
    /\ status' = "raised"
    /\ last' = node
    /\ steps' = steps + 1
    /\ updated' = {}
    /\ routed' = "none"
    /\ UNCHANGED <<wf, cfg, node, st, visits, rejects, loops, turns, result, resilient, raw>>

ExecPost ==
    /\ UNCHANGED <<regVars, before, wstore, libVars>>
    /\ status = "running" /\ NodeType(node) = "post_model"
    /\ Advance(PostModel(st, DetectCompletion(wf, node, cfg)))
    /\ UNCHANGED <<visits, rejects, loops, turns, raw>>

\* answer: the model answers, or its call raises and the node catches it
ExecAnswer(out, ok) ==
    /\ UNCHANGED <<regVars, before, wstore, libVars>>
    /\ status = "running" /\ NodeType(node) = "answer"
    /\ Advance(IF ok THEN Answer(st, out) ELSE NodeError)
    /\ UNCHANGED <<visits, rejects, loops, turns, raw>>

\* review: the model gives a verdict, or its call raises and the node catches it
ExecReview(verdict, ok) ==
    /\ UNCHANGED <<regVars, before, wstore, libVars>>
    /\ status = "running" /\ NodeType(node) = "review"
    /\ Advance(IF ok THEN Review(st, verdict, ReviewMaxRetries(wf)) ELSE NodeError)
    /\ rejects' = IF ok /\ verdict # "approved" THEN rejects + 1 ELSE rejects
    /\ UNCHANGED <<visits, loops, turns, raw>>

\* conditional_router: pure routing, no field kept here is written
ExecRouter ==
    /\ UNCHANGED <<regVars, before, wstore, libVars>>
    /\ status = "running" /\ NodeType(node) = "conditional_router"
    /\ Advance([f \in {} |-> 0])
    /\ UNCHANGED <<visits, rejects, loops, turns, raw>>

\* the simple graph's agent node: the model answers, or raises and is caught
ExecAgent(out, ok) ==
    /\ UNCHANGED <<regVars, before, wstore, libVars>>
    /\ status = "running" /\ NodeType(node) = "agent"
    /\ Advance(IF ok THEN Agent(st, out) ELSE NodeError)
    /\ turns' = turns + 1
    /\ UNCHANGED <<visits, rejects, loops, raw>>

ExecProcessOutput ==
    /\ UNCHANGED <<regVars, before, wstore, libVars>>
    /\ status = "running" /\ NodeType(node) = "process_output"
    /\ Advance(ProcessOutput(st))
    /\ UNCHANGED <<visits, rejects, loops, turns, raw>>

NoResult == [kind |-> "none", text |-> ""]

\* an exception left the run: invoke re-raises it, execute_workflow answers 500
Raised == [kind |-> "raised", text |-> ""]

\* A result text that is last_output whatever the mode
\* (what InvokeReturnsAnswer must rule out)
InvokeTextLastOutput(autonomous, s) ==
    IF s.error # "None" THEN [kind |-> "error", text |-> s.error]
    ELSE [kind |-> "text", text |-> s.last_output]

\* AgentSession.invoke after the graph returned its final state s; kind error
\* stands for the text "Error: " followed by the error message
InvokeText(autonomous, s) ==
    IF s.error # "None" THEN [kind |-> "error", text |-> s.error]
    ELSE IF autonomous
    THEN [kind |-> "text",
          text |-> IF s.final_answer # "" THEN s.final_answer ELSE s.answer]
    ELSE [kind |-> "text", text |-> s.last_output]

\* execute_workflow's response after executor.run returned s: its final_answer
ExecuteWorkflowText(s) ==
    [kind |-> "text",
     text |-> IF s.final_answer # "" THEN s.final_answer ELSE s.last_output]

\* the run is over and its caller gets the result
RunEnd ==
    /\ UNCHANGED <<regVars, before, wstore, libVars>>
    /\ status \in {"done", "raised", "recursion"} /\ result = NoResult
    /\ result' = IF status # "done" THEN Raised
                 ELSE IF wf \in SessionGraphs THEN InvokeText(Autonomous(wf), st)
                 ELSE ExecuteWorkflowText(st)
    /\ UNCHANGED <<wf, cfg, status, node, st, updated, last, steps, visits, rejects, loops, turns,
                   resilient, routed, raw>>

\* classify: the model replies, or its call raises and the node catches it
ExecClassify(reply, ok) ==
    /\ UNCHANGED <<regVars, before, wstore, libVars>>
    /\ status = "running" /\ NodeType(node) = "classify"
    /\ Advance(IF ok THEN Classify(st, reply, Categories(wf), DefaultCategory(wf))
               ELSE NodeError)
    /\ raw' = IF ok THEN reply ELSE "none"
    /\ UNCHANGED <<visits, rejects, loops, turns>>

ExecSetter ==
    /\ UNCHANGED <<regVars, before, wstore, libVars>>
    /\ status = "running" /\ NodeType(node) = "state_setter"
    /\ Advance(StateSetter(StateUpdates(wf, node)))
    /\ UNCHANGED <<visits, rejects, loops, turns, raw>>

\* create_todos: the model answers with a list of n items, or its call raises
\* and the node catches it
ExecCreateTodos(n, ok) ==
    /\ UNCHANGED <<regVars, before, wstore, libVars>>
    /\ status = "running" /\ NodeType(node) = "create_todos"
    /\ Advance(IF ok THEN CreateTodos(st, n) ELSE NodeError)
    /\ UNCHANGED <<visits, rejects, loops, turns, raw>>

\* execute_todo: the model answers, or its call raises and the node catches it
ExecTodo(out, ok) ==
    /\ UNCHANGED <<regVars, before, wstore, libVars>>
    /\ status = "running" /\ NodeType(node) = "execute_todo"
    /\ loops' = loops + 1
    /\ Advance(ExecuteTodo(st, out, ok))
    /\ UNCHANGED <<visits, rejects, turns, raw>>

\* check_progress: counts for the log and the metadata, no field kept here
ExecCheckProgress ==
    /\ UNCHANGED <<regVars, before, wstore, libVars>>
    /\ status = "running" /\ NodeType(node) = "check_progress"
    /\ Advance([f \in {} |-> 0])
    /\ UNCHANGED <<visits, rejects, loops, turns, raw>>

\* ------------------------------------------------ the iteration gate alone
NoGate == [s |-> InitialState(0), c |-> NoCfg, upd |-> << >>, port |-> "none"]

\* the states an iteration gate can be handed
GateStates ==
    {[InitialState(m) EXCEPT !.iteration = i, !.is_complete = d, !.error = e,
                             !.completion_signal = g, !.context_budget = b,
                             !.final_answer = f] :
        m \in 1..MaxIterations, i \in 0..MaxIterations, d \in BOOLEAN,
        e \in {"None", "model error"},
        g \in {"None", "none", "continue", "complete", "blocked", "error"},
        b \in {"None", "ok", "warn", "block", "overflow"}, f \in {"", "text"}}

\* the configurations of an iteration gate
GateConfigs ==
    {[NoCfg EXCEPT !.max_iterations_override = o, !.check_iteration = ci,
                   !.check_budget = cb, !.check_completion = cc,
                   !.custom_stop_field = cf] :
        o \in {0, 2}, ci \in BOOLEAN, cb \in BOOLEAN, cc \in BOOLEAN,
        cf \in {"", "final_answer"}}

\* the runtime executes an iteration gate once, on some state s with some
\* configuration c, merges its update and asks its routing function for the
\* port
GateExecute ==
    /\ UNCHANGED <<regVars, runVars, before, wstore, nreg, deleg>>
    /\ gate = NoGate
    /\ \E s \in GateStates, c \in GateConfigs :
          gate' = [s |-> s, c |-> c, upd |-> IterationGate(s, c),
                   port |-> GateRoute(Merge(s, IterationGate(s, c)))]

\* ------------------------------------------------ delegate_task
\* the prompts a manager delegates
Prompts == {"task a", "task b"}

\* a live worker of the manager, nothing delegated yet
NoDelegation ==
    [worker |-> [alive |-> TRUE, is_busy |-> FALSE, current_task |-> "None",
                 last_output |-> "None"],
     call |-> [c \in Callers |-> "idle"],
     resp |-> "none"]

\* delegate_task admits the request: manager and worker were found, the worker
\* belongs to the manager and its process is alive
DelegateAdmits(w) == w.alive

\* POST /api/agents/{manager}/delegate up to `await worker.invoke(...)`: a
\* worker whose process is not alive answers 400, else the worker is marked busy
DelegateStart(c, prompt) ==
    /\ UNCHANGED <<regVars, runVars, before, wstore, gate, nreg>>
    /\ deleg.call[c] = "idle"
    /\ deleg' = IF ~DelegateAdmits(deleg.worker)
                THEN [deleg EXCEPT !.resp = "400"]
                ELSE [deleg EXCEPT !.worker.is_busy = TRUE,
                                   !.worker.current_task = prompt,
                                   !.call[c] = "invoke", !.resp = "none"]

\* worker.invoke returned its text, an "Error: ..." text included: the worker
\* is marked idle and the delegation answers completed or error
DelegateReturns(c, out) ==
    /\ UNCHANGED <<regVars, runVars, before, wstore, gate, nreg>>
    /\ deleg.call[c] = "invoke"
    /\ deleg' = [deleg EXCEPT !.worker.is_busy = FALSE,
                              !.worker.last_output = IF out = "" THEN "None" ELSE out,
                              !.call[c] = "idle",
                              !.resp = IF out \in {"", "Error: x"} THEN "error"
                                       ELSE "completed"]

\* worker.invoke raised: the worker is marked idle, the delegation answers 500
DelegateRaises(c) ==
    /\ UNCHANGED <<regVars, runVars, before, wstore, gate, nreg>>
    /\ deleg.call[c] = "invoke"
    /\ deleg' = [deleg EXCEPT !.worker.is_busy = FALSE, !.call[c] = "idle",
                              !.resp = "500"]

\* the worker's process exits
WorkerDies ==
    /\ UNCHANGED <<regVars, runVars, before, wstore, gate, nreg>>
    /\ deleg.worker.alive
    /\ deleg' = [deleg EXCEPT !.worker.alive = FALSE, !.resp = "none"]

\* ------------------------------------------------ NodeRegistry
\* the names nodes are registered and looked up under; "" is the empty node_type
NodeNames == {"", "answer", "llm_call", "direct_answer"}

\* NodeRegistry.__init__: both dicts empty (a name maps to None / "None")
NoNodes ==
    [registry |-> [t \in NodeNames |-> None], aliases |-> [t \in NodeNames |-> "None"],
     created |-> 0, latest |-> [t \in NodeNames |-> None]]

\* A lookup that tries the alias before the name itself
\* (what LastWriterWins must rule out)
NodeGetAliasFirst(r, name) ==
    IF r.aliases[name] # "None" /\ r.aliases[name] # ""
    THEN r.registry[r.aliases[name]]
    ELSE r.registry[name]

\* NodeRegistry.get in registry r: the node under the name, else the node under
\* the canonical name the alias dict has for it, else None
NodeGet(r, name) ==
    IF r.registry[name] # None THEN r.registry[name]
    ELSE IF r.aliases[name] # "None" /\ r.aliases[name] # ""
    THEN r.registry[r.aliases[name]]
    ELSE None

\* NodeRegistry.register of a class whose node_type is t: a new instance is
\* created; an empty node_type raises ValueError, else the instance is stored
\* under t whatever was there
RegisterNode(t) ==
    /\ UNCHANGED <<regVars, runVars, before, wstore, gate, deleg>>
    /\ nreg.created < MaxNodes
    /\ nreg' = IF t = ""
               THEN [nreg EXCEPT !.created = @ + 1]
               ELSE [nreg EXCEPT !.created = @ + 1,
                                 !.registry[t] = nreg.created + 1,
                                 !.latest[t] = nreg.created + 1]

\* NodeRegistry.register_alias(alias, canonical)
RegisterAlias(alias, canonical) ==
    /\ UNCHANGED <<regVars, runVars, before, wstore, gate, deleg>>
    /\ nreg' = [nreg EXCEPT !.aliases[alias] = canonical]

\* ------------------------------------------------ ExecutionContext.resilient_invoke
\* FailureReason, and the reasons is_recoverable accepts
FailureReasons == {"rate_limited", "overloaded", "timeout", "network_error",
                   "auth", "invalid_input", "internal", "unknown"}

IsRecoverable(reason) ==
    reason \in {"rate_limited", "overloaded", "timeout", "network_error"}

\* an exception of the model: its classified reason and the attempt it ended
Error(reason, attempt) == [reason |-> reason, attempt |-> attempt]

NoError == Error("none", 0)

\* no call of the helper yet; attempt counts from 0 as the loop variable does,
\* errors are the exceptions the model raised, in order, thrown the exception
\* that left the helper, with the attempt history it carries
NoCall ==
    [pc |-> "idle", max_retries |-> 0, attempt |-> 0, errors |-> <<>>, wait |-> 0,
     thrown |-> NoError, attached |-> <<>>]

\* ExecutionContext.max_retries: the dataclass default
DefaultMaxRetries == 2

\* A delay map with the delays of rate-limited and overloaded exchanged
\* (what BackoffScaledByRetry must rule out)
DelayExchanged(reason) ==
    CASE reason = "rate_limited" -> 3
      [] reason = "overloaded" -> 5
      [] OTHER -> 2

\* delay_map.get(reason, 2.0), in seconds
Delay(reason) ==
    CASE reason = "rate_limited" -> 5
      [] reason = "overloaded" -> 3
      [] OTHER -> 2

\* A helper that gives up one attempt later
\* (what RetryAtMostThrice must rule out)
GivesUpLate(reason, attempt, max_retries) ==
    ~IsRecoverable(reason) \/ attempt > max_retries

\* `if not is_recoverable(reason) or attempt >= self.max_retries: raise`
GivesUp(reason, attempt, max_retries) ==
    ~IsRecoverable(reason) \/ attempt >= max_retries

\* resilient_invoke is called and enters its loop: the first model call is awaited
ResilientInvoke ==
    /\ UNCHANGED <<regVars, before, wstore, libVars>>
    /\ resilient.pc = "idle"
    /\ resilient' = [NoCall EXCEPT !.pc = "call", !.max_retries = DefaultMaxRetries]
    /\ UNCHANGED <<wf, cfg, status, node, st, updated, last, steps, visits, rejects, loops, turns, result,
                   routed, raw>>

\* the awaited model call returns a response: the helper returns it
ModelResponds ==
    /\ UNCHANGED <<regVars, before, wstore, libVars>>
    /\ resilient.pc = "call"
    /\ resilient' = [resilient EXCEPT !.pc = "returned"]
    /\ UNCHANGED <<wf, cfg, status, node, st, updated, last, steps, visits, rejects, loops, turns, result,
                   routed, raw>>

\* the awaited model call raises an exception classified as `reason`: bare
\* `raise` rethrows this exception, else the helper sleeps before the next attempt
ModelRaises(reason) ==
    /\ UNCHANGED <<regVars, before, wstore, libVars>>
    /\ resilient.pc = "call"
    /\ LET e == Error(reason, resilient.attempt)
           errors == Append(resilient.errors, e) IN
       resilient' =
           IF GivesUp(reason, resilient.attempt, resilient.max_retries)
           THEN [resilient EXCEPT !.pc = "raised", !.errors = errors, !.thrown = e]
           ELSE [resilient EXCEPT !.pc = "sleep", !.errors = errors,
                                  !.wait = Delay(reason) * (resilient.attempt + 1)]
    /\ UNCHANGED <<wf, cfg, status, node, st, updated, last, steps, visits, rejects, loops, turns, result,
                   routed, raw>>

\* asyncio.sleep(wait) is over: the loop's next attempt awaits the model
SleepOver ==
    /\ UNCHANGED <<regVars, before, wstore, libVars>>
    /\ resilient.pc = "sleep"
    /\ resilient' = [resilient EXCEPT !.pc = "call", !.attempt = @ + 1]
    /\ UNCHANGED <<wf, cfg, status, node, st, updated, last, steps, visits, rejects, loops, turns, result,
                   routed, raw>>

\* ------------------------------------------------ specification
Init ==
    /\ agents = [i \in Ids |-> None]
    /\ procs = [i \in Ids |-> None]
    /\ obj = [o \in Objs |-> NoObj]
    /\ nextObj = 1
    /\ nextId = 1
    /\ store = [i \in Ids |-> NoRecord]
    /\ disk = {}
    /\ call = [c \in Callers |-> Idle]
    /\ ret = NoRet
    /\ preserved = {}
    /\ prevPath = [i \in Ids |-> <<>>]
    /\ delRet = {}
    /\ wf = "none"
    /\ cfg = NoCfg
    /\ status = "idle"
    /\ node = "start"
    /\ st = InitialState(0)
    /\ updated = {}
    /\ last = "start"
    /\ steps = 0
    /\ visits = 0
    /\ rejects = 0
    /\ loops = 0
    /\ turns = 0
    /\ result = NoResult
    /\ resilient = NoCall
    /\ routed = "none"
    /\ raw = "none"
    /\ before = [obj |-> None, was |-> NoObj]
    /\ gate = NoGate
    /\ nreg = NoNodes
    /\ deleg = NoDelegation
    \* install_templates has saved the two built-in templates
    /\ wstore = [next |-> 1,
                 items |-> [i \in {"template-autonomous", "template-simple"}
                                    \cup {ToString(n) : n \in 1..MaxWorkflows} |->
                               IF i = "template-autonomous"
                               THEN [present |-> TRUE, is_template |-> TRUE,
                                     name |-> "autonomous", graph |-> "medium"]
                               ELSE IF i = "template-simple"
                               THEN [present |-> TRUE, is_template |-> TRUE,
                                     name |-> "simple", graph |-> "simple"]
                               ELSE [present |-> FALSE, is_template |-> FALSE,
                                     name |-> "none", graph |-> "none"]]]

\* Registry operations: create, restore, delete, permanent delete, upgrade,
\* dead-session cleanup
RegistryNext ==
    \/ \E c \in Callers : CreateStart(c)
    \/ \E c \in Callers, sid \in Ids : RestoreStart(c, sid)
    \/ \E c \in Callers : CreateInitOk(c)
    \/ \E c \in Callers : CreateInitFail(c)
    \/ \E c \in Callers, sid \in Ids, cs \in BOOLEAN : DeleteStart(c, sid, cs)
    \/ \E c \in Callers : DeleteStopped(c)
    \/ \E c \in Callers, sid \in Ids : PermanentDeleteStart(c, sid)
    \/ \E c \in Callers : LegacyCreate(c)
    \/ \E c \in Callers, sid \in Ids : Upgrade(c, sid)
    \/ \E o \in Objs : ProcessDies(o)
    \/ \E c \in Callers : CleanupDeadStart(c)
    \/ \E c \in Callers : CleanupDeadAgent(c)
    \/ \E c \in Callers : CleanupDeadScan(c)
    \/ \E c \in Callers : CleanupDeadProcess(c)

Spec == Init /\ [][RegistryNext]_vars

\* Sessions being invoked while they are created and deleted
InvokeNext ==
    \/ \E c \in Callers : CreateStart(c)
    \/ \E c \in Callers : CreateInitOk(c)
    \/ \E c \in Callers : CreateInitFail(c)
    \/ \E c \in Callers, sid \in Ids, cs \in BOOLEAN : DeleteStart(c, sid, cs)
    \/ \E c \in Callers : DeleteStopped(c)
    \/ \E c \in Callers, sid \in Ids, stale \in BOOLEAN : InvokeStart(c, sid, stale)
    \/ \E c \in Callers : NodeGuard(c)
    \/ \E c \in Callers : NodeAgent(c)
    \/ \E c \in Callers, ok \in BOOLEAN : ModelReturns(c, ok)
    \/ \E c \in Callers : NodePost(c)
    \/ \E c \in Callers : InvokeFinish(c)
    \/ \E c \in Callers, sid \in Ids : StopExecution(c, sid)

SpecInvoke == Init /\ [][InvokeNext]_vars

\* An iteration gate executed on any state, under any configuration
GateNext == GateExecute

SpecGate == Init /\ [][GateNext]_vars

\* A manager's dashboard delegating tasks to one worker, requests overlapping
DelegateNext ==
    \/ \E c \in Callers, prompt \in Prompts : DelegateStart(c, prompt)
    \/ \E c \in Callers, out \in {"", "text", "Error: x"} : DelegateReturns(c, out)
    \/ \E c \in Callers : DelegateRaises(c)
    \/ WorkerDies

SpecDelegate == Init /\ [][DelegateNext]_vars

\* The node registry under any sequence of registrations
NodesNext ==
    \/ \E t \in NodeNames : RegisterNode(t)
    \/ \E alias \in NodeNames \ {""}, canonical \in NodeNames \ {""} :
            RegisterAlias(alias, canonical)

SpecNodes == Init /\ [][NodesNext]_vars

\* Sessions used through their own methods: constructed, initialized and
\* stopped any number of times, their processes dying at any moment
SessionNext ==
    \/ SessionNew
    \/ \E o \in Objs, ok \in BOOLEAN : SessionInitialize(o, ok)
    \/ \E o \in Objs : SessionStop(o)
    \/ \E o \in Objs : ProcessDies(o)

SpecSession == Init /\ [][SessionNext]_vars

\* Workflow definitions being created, updated and deleted beside the
\* installed templates
WorkflowsNext ==
    \/ \E name \in {"a", "b"}, graph \in {"linear", "gate_loop"} :
            CreateWorkflow(name, graph)
    \/ \E id \in DOMAIN wstore.items, name \in {"a", "b", "None"},
          graph \in {"linear", "gate_loop", "None"} : UpdateWorkflow(id, name, graph)
    \/ \E id \in DOMAIN wstore.items : DeleteWorkflow(id)

SpecWorkflows == Init /\ [][WorkflowsNext]_vars

\* Managers and their workers being created and deleted
TeamNext ==
    \/ \E c \in Callers, role \in {"manager", "worker"}, mid \in Ids \cup {None} :
            CreateAs(c, role, mid)
    \/ \E c \in Callers : CreateInitOk(c)
    \/ \E c \in Callers : CreateInitFail(c)
    \/ \E c \in Callers, sid \in Ids, cs \in BOOLEAN : DeleteStart(c, sid, cs)
    \/ \E c \in Callers : DeleteStopped(c)

SpecTeam == Init /\ [][TeamNext]_vars

\* One workflow run: any of the workflows, any max_iterations up to the bound,
\* any node configuration, any sequence of model answers
RunNext ==
    \/ \E w \in Workflows, max \in 1..MaxIterations, detect \in BOOLEAN, chk \in BOOLEAN,
          own \in 1..MaxIterations, auto \in BOOLEAN :
            RunStart(w, max, detect, chk, own, auto)
    \/ ExecGate
    \/ \E out \in Outputs : ExecLLM(out)
    \/ ExecLLMRaises
    \/ ExecPost
    \/ ExecSetter
    \/ \E out \in Outputs, ok \in BOOLEAN : ExecAnswer(out, ok)
    \/ \E verdict \in Verdicts, ok \in BOOLEAN : ExecReview(verdict, ok)
    \/ ExecRouter
    \/ \E reply \in {"easy", "medium", "hard", "other"}, ok \in BOOLEAN :
            ExecClassify(reply, ok)
    \/ \E out \in Outputs, ok \in BOOLEAN : ExecAgent(out, ok)
    \/ ExecProcessOutput
    \/ \E n \in 0..MaxTodos, ok \in BOOLEAN : ExecCreateTodos(n, ok)
    \/ \E out \in Outputs, ok \in BOOLEAN : ExecTodo(out, ok)
    \/ ExecCheckProgress
    \/ RunEnd

SpecRun == Init /\ [][RunNext]_vars

\* One call of the retry helper, the model raising any classified error or
\* answering at each attempt
RetryNext ==
    \/ ResilientInvoke
    \/ ModelResponds
    \/ \E reason \in FailureReasons : ModelRaises(reason)
    \/ SleepOver

SpecRetry == Init /\ [][RetryNext]_vars

\* ------------------------------------------------ properties of invoke
\* the run of handler c has executed at least one node of the graph
RanNode(c) ==
    call[c].op = "invoke" /\ call[c].pc \in {"n_agent", "n_model", "n_post", "n_end"}

\* handler c executes a node of its run in this step
NodeStep(c) == call[c].pc \in NodePcs /\ call'[c].pc # call[c].pc

\* C1: of the invoke calls that overlap on one Session exactly one runs the
\* graph; the others fail Busy without executing any node.
OneRunPerSession ==
    \A c1, c2 \in Callers :
        (c1 # c2 /\ RanNode(c1) /\ RanNode(c2)) => call[c1].obj # call[c2].obj

\* C7: once the delete of a Session with a run in flight has returned, no node
\* of that run executes.
NoNodeAfterDelete ==
    [][\A c \in Callers : NodeStep(c) => call[c].obj \notin delRet]_vars

\* C12: once a caller has signalled cancellation of a session's run (the stop
\* request has answered success), no further node of that run is dispatched.
NoNodeAfterStop ==
    [][(ret.op = "stop" /\ ret.res = "ok") =>
          \A c \in Callers : NodeStep(c) => call[c].obj # agents[ret.sid]]_vars

\* an invoke is turned away at its entry in this step: it answers without
\* its handler having been suspended
InvokeRefused == call' = call /\ ret'.op = "invoke"

\* C15: a Session's status becomes error only through a freshness failure or
\* a model-initialization failure; a run that fails with a graph error leaves
\* the status running, and a later invoke is turned away only if the session
\* is stale, unknown or not initialized.
StatusErrorOnlyStaleOrInit ==
    [][/\ \A o \in Objs :
             (obj'[o].status = "error" /\ obj[o].status # "error") =>
                 obj'[o].error_message \in {"stale", "init"}
       /\ \A c \in Callers :
             (call[c].pc = "n_end" /\ call'[c].pc = "idle") =>
                 obj'[call[c].obj].status = "running"
       /\ (InvokeRefused /\ ret'.res # "stale") =>
             (agents[ret'.sid] = None \/ ~obj[agents[ret'.sid]].init)]_vars

\* after a run of the session failed with a graph error the status is running
\* and a later invoke has been accepted: its run is about to dispatch a node
StatusErrorOnlyStaleOrInitSeen ==
    \E c \in Callers :
        /\ call[c].pc = "n_guard"
        /\ obj[call[c].obj].error_message = "graph"
        /\ obj[call[c].obj].status = "running"
        /\ \A d \in Callers \ {c} : call[d].pc = "idle"

\* C16: if the freshness evaluator returns should_reset at the entry of
\* invoke, invoke raises Stale before any graph node is executed and the
\* session's status is error afterwards.
StaleInvokeMarksError ==
    [][(InvokeRefused /\ ret'.res = "stale") =>
          /\ obj'[agents[ret'.sid]].status = "error"
          /\ obj[agents[ret'.sid]].init]_vars

\* invoke has just raised Stale on a session that had run before, and the
\* session's status is error
StaleInvokeMarksErrorSeen ==
    /\ ret.op = "invoke" /\ ret.res = "stale"
    /\ agents[ret.sid] # None
    /\ obj[agents[ret.sid]].status = "error"
    /\ obj[agents[ret.sid]].error_message = "stale"
    /\ \A c \in Callers : call[c].pc = "idle"

\* ------------------------------------------------ registry: list and get
\* list_agents(): the values of the live map
ListAgents == {agents[k] : k \in {i \in Ids : agents[i] # None}}

\* list_agent_sessions: the session_id of each listed session's info
ListedIds == {obj[a].asid : a \in ListAgents}

\* get_agent(id): self._local_agents.get(id)
GetAgent(id) == IF id \in Ids THEN agents[id] ELSE None

\* a permanent_delete_session(sid) call is in flight
PermanentDeleteInFlight(sid) ==
    \E c \in Callers : call[c].op = "permdel" /\ call[c].sid = sid

PermanentDeleteRemovesAll ==
    (ret.op = "permdel" /\ ret.res = "ok") =>
        /\ agents[ret.sid] = None
        /\ StoragePath(ret.sid) \notin disk
        /\ store[ret.sid].st = "none"

ListedIdsResolve ==
    \A id \in ListedIds :
        /\ GetAgent(id) # None
        /\ obj[GetAgent(id)].asid = id

\* an upgrade has just answered, two sessions are listed, and a delete of a
\* listed session is suspended in its cleanup
ListedIdsResolveSeen ==
    /\ ret.op = "upgrade" /\ ret.res = "ok"
    /\ Cardinality(ListedIds) = 2
    /\ \E c \in Callers : call[c].pc = "del_stop" /\ call[c].sid \in ListedIds

\* ------------------------------------------------ properties of workflow runs
\* C2: whatever the graph's shape, a run ends after at most max_iterations * 4
\* node invocations.
RunawayCap == steps <= cfg.max_iterations * 4

PostSawStopSignal ==
    /\ NodeType(last) = "post_model" /\ DetectCompletion(wf, last, cfg)
    /\ st.last_output # ""
    /\ DetectCompletionSignal(st.last_output) \in StopSignals

\* C9: when post_model runs with detect_completion on and its source field
\* carries a complete, blocked or error signal, its update sets is_complete.
PostModelMarksComplete ==
    PostSawStopSignal => ("is_complete" \in updated /\ st.is_complete)

RunStep == status = "running" /\ steps' = steps + 1

\* node types that count an iteration: post_model, and process_output, which
\* stands in its place in the simple graph
Counting == {"post_model", "process_output"}

\* node types whose execution calls the model
ModelNodes == {"llm_call", "answer", "review", "agent"}

NoModelCallAfterError ==
    [][(RunStep /\ st.error # "None") => NodeType(node) \notin ModelNodes]_vars

\* a node's model call has failed in the run: the exception left the graph, or
\* the node caught it and wrote state.error
ModelCallFailed == status = "raised" \/ st.error # "None"

\* C14: every failed run, whichever node fails, returns a final state with
\* error populated and is_complete set, and the text result of invoke is
\* "Error: " followed by the error message.
FailedRunReturnsError ==
    (result # NoResult /\ ModelCallFailed) =>
        /\ result.kind # "raised"
        /\ st.error # "None" /\ st.is_complete
        /\ wf \in SessionGraphs => result = [kind |-> "error", text |-> st.error]

\* invoke has returned the text of a run that ended without error
InvokeReturnedText == wf \in SessionGraphs /\ result.kind = "text"

\* C19 as stated: for every run that ends without error, invoke returns
\* final_answer when the final state has it set and last_output otherwise,
\* whichever graph the session runs.
InvokeReturnsFinalOrLast ==
    InvokeReturnedText =>
        result.text = IF st.final_answer # "" THEN st.final_answer ELSE st.last_output

\* C19: for every run that ends without error, invoke returns in autonomous
\* mode final_answer when the final state has it set and the answer field
\* otherwise, and in simple mode last_output, final_answer being never set.
InvokeReturnsAnswer ==
    InvokeReturnedText =>
        IF Autonomous(wf)
        THEN result.text = IF st.final_answer # "" THEN st.final_answer ELSE st.answer
        ELSE st.final_answer = "" /\ result.text = st.last_output

\* an autonomous run has ended without error and without a final answer, and
\* invoke has returned the answer, which is not the last output
InvokeReturnsAnswerSeen ==
    /\ InvokeReturnedText /\ Autonomous(wf)
    /\ st.final_answer = "" /\ st.answer # ""
    /\ result.text = st.answer /\ result.text # st.last_output

\* the run of the answer -> review loop has ended without error after the
\* model rejected a non-empty answer twice
RejectedTwice ==
    /\ wf = "review_retry" /\ status = "done" /\ st.error = "None"
    /\ rejects = 2 /\ st.answer # ""

ModelCalls == IF resilient.pc = "idle" THEN 0 ELSE resilient.attempt + 1

\* C17: one call of the retry helper invokes the model at most 3 times; a
\* non-recoverable error is rethrown after the attempt that produced it with
\* no further attempt, and only recoverable errors lead to another attempt.
RetryAtMostThrice ==
    /\ ModelCalls <= 3
    /\ \A i \in 1..Len(resilient.errors) :
          LET e == resilient.errors[i] IN
          /\ ~IsRecoverable(e.reason) =>
                /\ i = Len(resilient.errors)
                /\ resilient.pc = "raised" /\ resilient.thrown = e
                /\ ModelCalls = e.attempt + 1
          /\ i < Len(resilient.errors) => IsRecoverable(e.reason)
    /\ ModelCalls > 1 => Len(resilient.errors) >= ModelCalls - 1

\* the helper has given up after three model calls that raised recoverable errors
RetryAtMostThriceSeen ==
    /\ resilient.pc = "raised" /\ ModelCalls = 3
    /\ \A i \in 1..3 : IsRecoverable(resilient.errors[i].reason)

\* C18: when every attempt of the retry helper fails with a recoverable
\* error, the error rethrown after exhaustion is the first error, and it
\* carries the history of the attempts made.
RethrowsFirstWithHistory ==
    (resilient.pc = "raised" /\ IsRecoverable(resilient.thrown.reason)) =>
        /\ resilient.thrown = resilient.errors[1]
        /\ resilient.attached = resilient.errors

ReachableNodesWired ==
    (status # "idle" /\ ValidateGraph(wf)) =>
        \A n \in Reachable(wf, {"start"}) \ {"end"} : Wiring(wf, n) # "none"

\* a run of an accepted workflow is at a node with conditional edges that it
\* reached over the direct edge of post
ReachableNodesWiredSeen ==
    /\ status = "running" /\ ValidateGraph(wf)
    /\ wf = "gate_loop" /\ node = "gate" /\ last = "post"
    /\ Wiring(wf, node) = "conditional" /\ Wiring(wf, last) = "direct"
\* C23: stop or cleanup called on a session that is already stopped returns
\* without raising, finds no model to tear down and leaves the session, its
\* status stopped included, as it was.
StopStoppedIsNoOp ==
    (ret.op = "session_stop" /\ before.was.status = "stopped") =>
        /\ ret.res = "ok"
        /\ ~before.was.model
        /\ obj[before.obj] = before.was
        /\ obj[before.obj].status = "stopped"

\* a session that was initialized and stopped has been stopped once more
StopStoppedIsNoOpSeen ==
    /\ ret.op = "session_stop" /\ before.was.status = "stopped"
    /\ ~before.was.alive /\ ~before.was.init
    /\ StoragePath(before.was.psid) \in disk

\* C24: initialize called on a session that is already initialized returns
\* success and changes nothing: no model process is spawned, and the status
\* and every other field of the session are what they were.
InitializeInitializedIsNoOp ==
    (ret.op = "session_initialize" /\ before.was.init) =>
        /\ ret.res = "true"
        /\ obj[before.obj] = before.was

\* initialize has returned on an initialized session whose process had died:
\* no process was spawned in its place
InitializeInitializedIsNoOpSeen ==
    /\ ret.op = "session_initialize" /\ before.was.init
    /\ ~before.was.alive /\ ~obj[before.obj].alive
\* C25: deleting a manager session removes that manager only: in each of the
\* two steps of delete_session on a live manager (up to the awaited process
\* stop, and from there to the response) every worker whose manager_id names
\* it stays in the live map, as the same object, with the status and the
\* manager_id it had.
DeleteKeepsWorkers ==
    [][\A m \in Ids :
          (/\ agents[m] # None /\ obj[agents[m]].role = "manager"
           /\ \E c \in Callers :
                 \/ call[c].pc = "idle" /\ call'[c].pc = "del_stop" /\ call'[c].sid = m
                 \/ call[c].pc = "del_stop" /\ call[c].sid = m /\ call'[c].pc = "idle")
          =>  /\ \A w \in GetAgentWorkersByManager(Reg, m) :
                    /\ agents'[w] = agents[w]
                    /\ obj'[agents[w]] = obj[agents[w]]
              /\ \A i \in Ids \ {m} : agents'[i] = agents[i]]_vars

\* the delete of a manager has returned; a worker that names it is live and
\* running, and the manager is in the live map no more
DeleteKeepsWorkersSeen ==
    /\ ret.op = "delete" /\ ret.res = "ok" /\ agents[ret.sid] = None
    /\ \E o \in Objs : obj[o].asid = ret.sid /\ obj[o].role = "manager"
    /\ \E w \in GetAgentWorkersByManager(Reg, ret.sid) :
          obj[agents[w]].status = "running"
\* C26: an update or a delete request on a workflow whose is_template flag is
\* true is rejected (HTTP 400 with a detail that names the template, the
\* code's form of Forbidden), and the stored template is the same before and
\* after the request.
TemplateWriteRejected ==
    [][(/\ ret'.op \in {"update_workflow", "delete_workflow"}
        /\ wstore.items[ret'.sid].present
        /\ wstore.items[ret'.sid].is_template)
       => (ret'.res = "400" /\ wstore'.items[ret'.sid] = wstore.items[ret'.sid])]_vars

\* a delete of a template has just been rejected, after definitions of the
\* user were updated and deleted
TemplateWriteRejectedSeen ==
    /\ ret.op = "delete_workflow" /\ ret.res = "400"
    /\ wstore.items[ret.sid].present /\ wstore.items[ret.sid].is_template
    /\ wstore.next > MaxWorkflows
    /\ \E i \in 1..MaxWorkflows : ~wstore.items[ToString(i)].present
\* the model's reply to the classify node executed last is none of the
\* categories configured for it
Unmatched ==
    /\ last = "classify" /\ st.error = "None" /\ raw # "none"
    /\ \A i \in 1..Len(Categories(wf)) : Categories(wf)[i] # raw

\* C27 as stated: when the model's reply matches none of the configured
\* categories, classify returns the configured default_category and the run
\* is routed through the port of that name.
UnmatchedGetsConfiguredDefault ==
    Unmatched => (st.difficulty = DefaultCategory(wf) /\ routed = DefaultCategory(wf))

\* C27, amended: when the model's reply matches none of the configured
\* categories, classify returns the configured default_category if that is one
\* of the categories, and else the second category (the only one when there
\* is one); the run is routed through the port of the category returned.
UnmatchedGetsEffectiveDefault ==
    Unmatched =>
        LET cats == Categories(wf)
            dflt == DefaultCategory(wf)
            eff == IF \E i \in 1..Len(cats) : cats[i] = dflt THEN dflt
                   ELSE IF Len(cats) > 1 THEN cats[2] ELSE cats[1] IN
        st.difficulty = eff /\ routed = eff

\* the reply matched neither easy nor hard, medium is no category of the
\* node, and the run went through the port hard to the hard path
UnmatchedGetsEffectiveDefaultSeen ==
    /\ Unmatched /\ wf = "triage2" /\ raw = "medium"
    /\ st.difficulty = "hard" /\ routed = "hard" /\ node = "answer"
\* C28: a run that invoke starts with max_iterations = n has n as its
\* iteration cap, in autonomous mode as in the other: the initial state, and
\* every later state of the run, carries max_iterations = n.
InvokeUsesRequestedCap ==
    (status # "idle" /\ wf \in SessionGraphs) => st.max_iterations = cfg.max_iterations
\* C29: in the autonomous template's medium path, whenever the review ended
\* with the verdict retry, rev_router sends the run to the medium iteration
\* gate, and when that gate continues the run is back at the answer step.
RetryGoesToGate ==
    wf = "medium" =>
        /\ (last = "rev_router" /\ st.error = "None" /\ st.review_result = "retry")
               => node = "gate_med"
        /\ (last = "gate_med" /\ routed = "continue") => node = "answer"
\* C30: in a workflow that the validator accepted and that was compiled with
\* conditional edges, every port a node's routing function returns is a key
\* of the node's port -> target map: routing never selects a port without a
\* target.
RoutedPortHasTarget ==
    (status # "idle" /\ ValidateGraph(wf) /\ routed # "none") =>
        routed \in EdgeMapKeys(wf, last)

\* C31: once cleanup of a session has completed its status stays stopped
\* until the session is initialized again; an invoke that was in flight when
\* cleanup ran does not set it back to running when it finishes or fails.
StoppedStaysStopped ==
    [][\A a \in Objs :
          (obj[a].status = "stopped" /\ ~obj'[a].init) => obj'[a].status = "stopped"]_vars

\* C32: at every moment at most one live session, and one model process,
\* exists per session id: overlapping create or restore calls for one id
\* never both register, so no session object is replaced in the live map
\* without having been cleaned up.
OneLiveSessionPerId ==
    \A a, b \in Objs :
        (a # b /\ obj[a].asid # None /\ obj[a].asid = obj[b].asid) =>
            ~(obj[a].init /\ obj[b].init)

\* C33: two delete calls for one live session id that overlap in time both
\* complete without raising, and afterwards the session is absent from the
\* live map and marked deleted in the store.
OverlappingDeletesComplete ==
    ret.op = "delete" =>
        /\ ret.res # "KeyError"
        /\ ret.res = "ok" => (agents[ret.sid] = None /\ store[ret.sid].st = "deleted")

\* ------------------------------------------------ properties of the iteration gate
\* the enabled checks of the gate executed last that triggered, by their
\* position in the order of evaluation
GateTriggers ==
    {k \in 1..4 :
        \/ k = 1 /\ gate.c.check_iteration
                 /\ gate.s.iteration >= (IF gate.c.max_iterations_override > 0
                                         THEN gate.c.max_iterations_override
                                         ELSE gate.s.max_iterations)
        \/ k = 2 /\ gate.c.check_budget /\ gate.s.context_budget \in {"block", "overflow"}
        \/ k = 3 /\ gate.c.check_completion
                 /\ gate.s.completion_signal \in {"complete", "blocked", "error"}
        \/ k = 4 /\ gate.c.custom_stop_field # "" /\ gate.s[gate.c.custom_stop_field] # ""}

\* C34: an iteration gate routes to stop exactly when is_complete or error is
\* set after its execution, that is when an enabled check triggered (iteration
\* limit, budget, completion signal, custom field, in that order) or the
\* incoming state was already complete or in error; a triggered stop records
\* the first check that triggered as gate_stop_reason; otherwise the gate
\* routes to continue with gate_stop_reason cleared.
GateStopsExactlyOnTrigger ==
    gate.port # "none" =>
        LET after == Merge(gate.s, gate.upd)
            names == <<"Iteration limit", "Context budget", "Completion signal",
                       "Custom stop">>
        IN  /\ gate.port = "stop" <=> (after.is_complete \/ after.error # "None")
            /\ gate.port = "stop" <=>
                   (GateTriggers # {} \/ gate.s.is_complete \/ gate.s.error # "None")
            /\ GateTriggers # {} =>
                   /\ after.is_complete
                   /\ \E k \in GateTriggers :
                         /\ \A j \in GateTriggers : k <= j
                         /\ after.gate_stop_reason = names[k]
            /\ gate.port # "stop" =>
                   (gate.port = "continue" /\ after.gate_stop_reason = "None")

\* a gate stopped for the budget while a stop signal and the custom field were
\* set as well
GateStopsExactlyOnTriggerSeen ==
    /\ gate.port = "stop"
    /\ {2, 3, 4} \subseteq GateTriggers /\ 1 \notin GateTriggers
    /\ gate.upd.gate_stop_reason = "Context budget"

\* ------------------------------------------------ properties of the todo loop
\* C35: an execution of execute_todo at an index i below the length of the
\* todo list leaves the length unchanged, replaces only item i, whose status
\* becomes completed or failed and whose result is set, and advances
\* current_todo_index by exactly one.
TodoReplacedInPlace ==
    [][(status = "running" /\ NodeType(node) = "execute_todo" /\ loops' = loops + 1
            /\ st.current_todo_index < Len(st.todos)) =>
        LET i == st.current_todo_index + 1 IN
        /\ Len(st'.todos) = Len(st.todos)
        /\ \A k \in DOMAIN st.todos : k # i => st'.todos[k] = st.todos[k]
        /\ st'.todos[i].id = st.todos[i].id
        /\ st'.todos[i].status \in {"completed", "failed"}
        /\ st'.todos[i].result # "None"
        /\ st'.current_todo_index = st.current_todo_index + 1]_vars

\* the second of two items has failed and the first is still completed
TodoReplacedInPlaceSeen ==
    /\ wf = "hard" /\ last = "exec_todo" /\ Len(st.todos) = 2
    /\ st.current_todo_index = 2
    /\ st.todos[1].status = "completed" /\ st.todos[2].status = "failed"

\* C39 as stated: in the hard path the execute loop is traversed at most
\* len(todos) times before control passes to the final review.
HardLoopWithinLength ==
    wf = "hard" => loops <= Len(st.todos)

\* C39: in the hard path the execute loop is traversed at most
\* max(1, len(todos)) times before control passes to the final review, whether
\* the todo executions succeed or fail: it is entered once even when the list
\* is empty.
HardLoopBound ==
    wf = "hard" => loops <= (IF Len(st.todos) = 0 THEN 1 ELSE Len(st.todos))

\* the loop went round twice for two items, one of which failed, and the run
\* has reached the final review
HardLoopBoundSeen ==
    /\ wf = "hard" /\ status = "done" /\ loops = 2 /\ Len(st.todos) = 2
    /\ \E k \in 1..2 : st.todos[k].status = "failed"

\* C36: before retry number k (k = 1, 2) that follows a recoverable failure
\* the retry helper waits base * k seconds, base being 5 for rate-limited, 3
\* for overloaded and 2 for every other recoverable reason.
BackoffScaledByRetry ==
    resilient.pc = "sleep" =>
        LET k == Len(resilient.errors)
            reason == resilient.errors[Len(resilient.errors)].reason
            base == IF reason = "rate_limited" THEN 5
                    ELSE IF reason = "overloaded" THEN 3 ELSE 2
        IN  /\ k \in {1, 2}
            /\ IsRecoverable(reason)
            /\ resilient.wait = base * k

\* the helper waits 10 seconds before its second retry, after a rate limit
BackoffScaledByRetrySeen ==
    /\ resilient.pc = "sleep" /\ Len(resilient.errors) = 2
    /\ resilient.errors[2].reason = "rate_limited" /\ resilient.wait = 10

\* ------------------------------------------------ properties of the node registry
\* C37 as stated: after any sequence of register and register_alias calls,
\* lookup of a name returns the node registered last for that node_type, and
\* lookup of an alias returns the same node as lookup of its canonical
\* node_type.
AliasAlwaysCanonical ==
    /\ \A t \in NodeNames : nreg.latest[t] # None => NodeGet(nreg, t) = nreg.latest[t]
    /\ \A a \in NodeNames :
          nreg.aliases[a] # "None" => NodeGet(nreg, a) = NodeGet(nreg, nreg.aliases[a])

\* C37: after any sequence of register and register_alias calls, lookup of a
\* name returns the node registered last for that node_type, and lookup of an
\* alias under which no node is registered itself returns the node registered
\* under its canonical node_type.
LastWriterWins ==
    /\ \A t \in NodeNames : nreg.latest[t] # None => NodeGet(nreg, t) = nreg.latest[t]
    /\ \A a \in NodeNames :
          (nreg.aliases[a] # "None" /\ nreg.latest[a] = None) =>
              NodeGet(nreg, a) = nreg.latest[nreg.aliases[a]]

\* direct_answer is an alias of answer, answer was registered twice, and a
\* node registered under llm_call has an alias entry as well
LastWriterWinsSeen ==
    /\ nreg.aliases["direct_answer"] = "answer" /\ nreg.latest["direct_answer"] = None
    /\ nreg.latest["answer"] = 2 /\ NodeGet(nreg, "direct_answer") = 2
    /\ nreg.aliases["llm_call"] = "answer" /\ nreg.latest["llm_call"] = 3

\* ------------------------------------------------ properties of delegation
\* C38: a worker's is_busy flag is true whenever at least one delegated task
\* is executing on the worker, two overlapping delegations included, and
\* false once none is executing, whether the delegation succeeded or raised.
BusyWhileDelegated ==
    deleg.worker.is_busy <=> (\E c \in Callers : deleg.call[c] = "invoke")

====
